---- MODULE Spec2Model ----
(***************************************************************************)
(* Dublin Core YAML validator: the validation pipeline                     *)
(* (validate_dublin_core_yaml), the pydantic schema it applies and the     *)
(* format validators it consults.                                          *)
(*                                                                         *)
(* A Python str is a sequence of one-character strings; a character       *)
(* outside printable ASCII is written "uXXXX".  A YAML value is a node:    *)
(* Null, Bool(b), Str(s), List(items) or Map(function from keys to        *)
(* nodes).                                                                 *)
(***************************************************************************)
EXTENDS Integers, Sequences, FiniteSets, TLC

----------------------------------------------------------------------------
(* Python's re module, for the constructs the patterns of validator.py use *)

\* \d on a str pattern: the ASCII digits and every other Unicode decimal
\* digit, of which u0663 (ARABIC-INDIC DIGIT THREE) stands here
Digit ==
  {"0","1","2","3","4","5","6","7","8","9","u0663"}

\* \s on a str pattern
Space ==
  {" ","\t","\n","\r","u000b","u000c"}

Upper ==
  <<"A","B","C","D","E","F","G","H","I","J","K","L","M","N","O","P","Q","R","S","T","U","V","W","X","Y","Z">>

Lower ==
  <<"a","b","c","d","e","f","g","h","i","j","k","l","m","n","o","p","q","r","s","t","u","v","w","x","y","z">>

\* str.lower() of one character
LowerChar(c) ==
  IF \E k \in DOMAIN Upper : Upper[k] = c
  THEN Lower[CHOOSE k \in DOMAIN Upper : Upper[k] = c]
  ELSE c

\* str.lower()
LowerStr(s) ==
  [i \in DOMAIN s |-> LowerChar(s[i])]

Unbounded ==
  -1

\* pattern constructors: a literal string, a character set [..], a negated
\* set [^..], a sequence, an alternation a|b, a greedy repeat {lo,hi}, ^, $
Lit(s) ==
  [op |-> "lit", s |-> s]

In(cs) ==
  [op |-> "in", cs |-> cs]

NotIn(cs) ==
  [op |-> "notin", cs |-> cs]

Cat(rs) ==
  [op |-> "cat", rs |-> rs]

Alt(rs) ==
  [op |-> "alt", rs |-> rs]

Rep(r, lo, hi) ==
  [op |-> "rep", r |-> r, lo |-> lo, hi |-> hi]

Bol ==
  [op |-> "bol"]

Eol ==
  [op |-> "eol"]

\* one character against another under re.IGNORECASE (ic) or not
SameChar(a, b, ic) ==
  IF ic THEN LowerChar(a) = LowerChar(b) ELSE a = b

RECURSIVE Ends(_, _, _, _)
RECURSIVE CatEnds(_, _, _, _, _)
RECURSIVE RepEnds(_, _, _, _, _)

\* the positions at which a match of pattern r that starts at position i of
\* s can end (the position after its last character)
Ends(r, s, i, ic) ==
  CASE r.op = "lit" ->
         IF /\ i + Len(r.s) - 1 <= Len(s)
            /\ \A k \in 1..Len(r.s) : SameChar(s[i + k - 1], r.s[k], ic)
         THEN {i + Len(r.s)} ELSE {}
    [] r.op = "in" ->
         IF i <= Len(s) /\ \E c \in r.cs : SameChar(s[i], c, ic)
         THEN {i + 1} ELSE {}
    [] r.op = "notin" ->
         IF i <= Len(s) /\ ~ \E c \in r.cs : SameChar(s[i], c, ic)
         THEN {i + 1} ELSE {}
    [] r.op = "cat" -> CatEnds(r.rs, 1, s, {i}, ic)
    [] r.op = "alt" -> UNION {Ends(r.rs[k], s, i, ic) : k \in DOMAIN r.rs}
    [] r.op = "rep" -> RepEnds(r, s, {i}, 0, ic)
    [] r.op = "bol" -> IF i = 1 THEN {i} ELSE {}
    [] r.op = "eol" ->
         \* $ matches at the end and before a newline that ends the string
         IF i = Len(s) + 1 \/ (i = Len(s) /\ s[i] = "\n") THEN {i} ELSE {}

CatEnds(rs, k, s, from, ic) ==
  IF k > Len(rs) \/ from = {} THEN from
  ELSE CatEnds(rs, k + 1, s, UNION {Ends(rs[k], s, i, ic) : i \in from}, ic)

\* from: the positions reached after n repetitions
RepEnds(r, s, from, n, ic) ==
  LET here == IF n >= r.lo THEN from ELSE {}
      next == UNION {Ends(r.r, s, i, ic) : i \in from} \ (IF n >= r.lo THEN from ELSE {})
  IN  IF from = {} \/ n = r.hi THEN here
      ELSE here \cup RepEnds(r, s, next, n + 1, ic)

\* bool(re.match(pattern, s, flags))
ReMatch(r, s, ic) ==
  Ends(r, s, 1, ic) # {}

NotHyphenOrSpace(c) ==
  c \notin ({"-"} \cup Space)

----------------------------------------------------------------------------
(* Validation functions *)

iso8601_patterns ==
  <<Cat(<<Bol, Rep(In(Digit), 4, 4), Lit(<<"-">>), Rep(In(Digit), 2, 2), Lit(<<"-">>), Rep(In(Digit), 2, 2), Eol>>),
    Cat(<<Bol, Rep(In(Digit), 4, 4), Lit(<<"-">>), Rep(In(Digit), 2, 2), Lit(<<"-">>), Rep(In(Digit), 2, 2), Lit(<<"T">>), Rep(In(Digit), 2, 2), Lit(<<":">>), Rep(In(Digit), 2, 2), Lit(<<":">>), Rep(In(Digit), 2, 2), Rep(Lit(<<"Z">>), 0, 1), Eol>>),
    Cat(<<Bol, Rep(In(Digit), 4, 4), Lit(<<"-">>), Rep(In(Digit), 2, 2), Lit(<<"-">>), Rep(In(Digit), 2, 2), Lit(<<"T">>), Rep(In(Digit), 2, 2), Lit(<<":">>), Rep(In(Digit), 2, 2), Lit(<<":">>), Rep(In(Digit), 2, 2), Lit(<<".">>), Rep(In(Digit), 3, 3), Rep(Lit(<<"Z">>), 0, 1), Eol>>),
    Cat(<<Bol, Rep(In(Digit), 4, 4), Lit(<<"/">>), Rep(In(Digit), 4, 4), Eol>>),
    Cat(<<Bol, Rep(In(Digit), 4, 4), Lit(<<"-">>), Rep(In(Digit), 2, 2), Lit(<<"-">>), Rep(In(Digit), 2, 2), Lit(<<"/">>), Rep(In(Digit), 4, 4), Lit(<<"-">>), Rep(In(Digit), 2, 2), Lit(<<"-">>), Rep(In(Digit), 2, 2), Eol>>)>>

\* ^(https?://)?(dx\.)?doi\.org/10\.\d{4,}/[^\s]+$|^10\.\d{4,}/[^\s]+$
doi_pattern ==
  Cat(<<Bol, Alt(<<Cat(<<Rep(Cat(<<Lit(<<"h","t","t","p">>), Rep(Lit(<<"s">>), 0, 1), Lit(<<":","/","/">>)>>), 0, 1), Rep(Lit(<<"d","x",".">>), 0, 1), Lit(<<"d","o","i",".","o","r","g","/","1","0",".">>), Rep(In(Digit), 4, Unbounded), Lit(<<"/">>), Rep(NotIn(Space), 1, Unbounded), Eol>>), Cat(<<Lit(<<"1","0",".">>), Rep(In(Digit), 4, Unbounded), Lit(<<"/">>), Rep(NotIn(Space), 1, Unbounded), Eol>>)>>)>>)

\* ^(97[89])?\d{9}[\dX]$
isbn_pattern ==
  Cat(<<Bol, Rep(Cat(<<Lit(<<"9","7">>), In({"8"} \cup {"9"})>>), 0, 1), Rep(In(Digit), 9, 9), In(Digit \cup {"X"}), Eol>>)

\* ^ISSN\s?\d{4}-\d{3}[\dX]$
issn_pattern ==
  Cat(<<Bol, Lit(<<"I","S","S","N">>), Rep(In(Space), 0, 1), Rep(In(Digit), 4, 4), Lit(<<"-">>), Rep(In(Digit), 3, 3), In(Digit \cup {"X"}), Eol>>)

\* ^0000-000[1-3]-\d{4}-\d{3}[\dX]$
orcid_pattern ==
  Cat(<<Bol, Lit(<<"0","0","0","0","-","0","0","0">>), In({"1","2","3"}), Lit(<<"-">>), Rep(In(Digit), 4, 4), Lit(<<"-">>), Rep(In(Digit), 3, 3), In(Digit \cup {"X"}), Eol>>)

\* ^lat:\s*-?\d+\.?\d*-?-?\d+\.?\d*,\s*lon:\s*-?\d+\.?\d*-?-?\d+\.?\d*$
coord_pattern ==
  Cat(<<Bol, Lit(<<"l","a","t",":">>), Rep(In(Space), 0, Unbounded), Rep(Lit(<<"-">>), 0, 1), Rep(In(Digit), 1, Unbounded), Rep(Lit(<<".">>), 0, 1), Rep(In(Digit), 0, Unbounded), Rep(Lit(<<"-">>), 0, 1), Rep(Lit(<<"-">>), 0, 1), Rep(In(Digit), 1, Unbounded), Rep(Lit(<<".">>), 0, 1), Rep(In(Digit), 0, Unbounded), Lit(<<",">>), Rep(In(Space), 0, Unbounded), Lit(<<"l","o","n",":">>), Rep(In(Space), 0, Unbounded), Rep(Lit(<<"-">>), 0, 1), Rep(In(Digit), 1, Unbounded), Rep(Lit(<<".">>), 0, 1), Rep(In(Digit), 0, Unbounded), Rep(Lit(<<"-">>), 0, 1), Rep(Lit(<<"-">>), 0, 1), Rep(In(Digit), 1, Unbounded), Rep(Lit(<<".">>), 0, 1), Rep(In(Digit), 0, Unbounded), Eol>>)

validate_iso8601_date(date_str) ==
  \E k \in DOMAIN iso8601_patterns : ReMatch(iso8601_patterns[k], date_str, FALSE)

\* variant for comparison: without re.IGNORECASE
validate_doi_case_sensitive(doi) ==
  ReMatch(doi_pattern, doi, FALSE)

validate_doi(doi) ==
  ReMatch(doi_pattern, doi, TRUE)

validate_isbn(isbn) ==
  LET clean_isbn == SelectSeq(isbn, NotHyphenOrSpace)
  IN  ReMatch(isbn_pattern, clean_isbn, FALSE)

validate_issn(issn) ==
  ReMatch(issn_pattern, issn, TRUE)

validate_orcid(orcid) ==
  ReMatch(orcid_pattern, orcid, FALSE)

\* variant for comparison: one latitude and one longitude, no ranges
validate_coordinates_point(coord_str) ==
  ReMatch(Cat(<<Bol, Lit(<<"l","a","t",":">>), Rep(In(Space), 0, Unbounded), Rep(Lit(<<"-">>), 0, 1), Rep(In(Digit), 1, Unbounded), Rep(Lit(<<".">>), 0, 1), Rep(In(Digit), 0, Unbounded), Lit(<<",">>), Rep(In(Space), 0, Unbounded), Lit(<<"l","o","n",":">>), Rep(In(Space), 0, Unbounded), Rep(Lit(<<"-">>), 0, 1), Rep(In(Digit), 1, Unbounded), Rep(Lit(<<".">>), 0, 1), Rep(In(Digit), 0, Unbounded), Eol>>), coord_str, FALSE)

validate_coordinates(coord_str) ==
  ReMatch(coord_pattern, coord_str, FALSE)
----------------------------------------------------------------------------
(* YAML values, as yaml.safe_load returns them *)

Null ==
  [t |-> "null"]

Bool(b) ==
  [t |-> "bool", b |-> b]

Str(s) ==
  [t |-> "str", s |-> s]

List(items) ==
  [t |-> "list", items |-> items]

Map(m) ==
  [t |-> "map", m |-> m]

\* a mapping without keys
EmptyMap ==
  [k \in {} |-> Null]

\* dict.get(key), None when the key is absent
Get(m, key) ==
  IF key \in DOMAIN m THEN m[key] ELSE Null

\* the truth value of a Python object
Truthy(v) ==
  CASE v.t = "null" -> FALSE
    [] v.t = "bool" -> v.b
    [] v.t = "str" -> Len(v.s) > 0
    [] v.t = "list" -> Len(v.items) > 0
    [] v.t = "map" -> DOMAIN v.m # {}

\* variant for comparison: None counts as -1
LenOrEmpty_unset(v) ==
  IF v = Null THEN 0 - 1 ELSE Len(v.items)

\* len(x or [])
LenOrEmpty(v) ==
  IF Truthy(v) THEN Len(v.items) ELSE 0

----------------------------------------------------------------------------
(* Field declarations *)

NoRegex ==
  [op |-> "none"]

\* name: annotation = Field(default, min_length, max_length, regex); ty is the
\* annotation's type with Optional[] removed, enum the values of an Enum
\* annotation, cls the class of a model, List[model] or URL annotation
Field(name, required, ty, min_length, max_length, regex, enum, cls) ==
  [name |-> name, required |-> required, ty |-> ty, min_length |-> min_length,
   max_length |-> max_length, regex |-> regex, enum |-> enum, cls |-> cls]

----------------------------------------------------------------------------
(* ISO standard models: the values of each Enum *)

ISO639_1 ==
  {<<"e","n">>,
   <<"e","s">>,
   <<"f","r">>,
   <<"d","e">>,
   <<"i","t">>,
   <<"p","t">>,
   <<"r","u">>,
   <<"j","a">>,
   <<"z","h">>,
   <<"a","r">>,
   <<"h","i">>,
   <<"k","o">>,
   <<"n","l">>,
   <<"s","v">>,
   <<"n","o">>,
   <<"d","a">>,
   <<"f","i">>,
   <<"p","l">>,
   <<"c","s">>,
   <<"h","u">>}

ISO3166_1 ==
  {<<"U","S">>,
   <<"U","S","A">>,
   <<"G","B">>,
   <<"U","K">>,
   <<"C","A">>,
   <<"A","U">>,
   <<"D","E">>,
   <<"F","R">>,
   <<"E","S">>,
   <<"I","T">>,
   <<"J","P">>,
   <<"C","N">>,
   <<"I","N">>,
   <<"B","R">>,
   <<"M","X">>,
   <<"R","U">>,
   <<"E","U">>}

DCMITypeVocabulary ==
  {<<"C","o","l","l","e","c","t","i","o","n">>,
   <<"D","a","t","a","s","e","t">>,
   <<"E","v","e","n","t">>,
   <<"I","m","a","g","e">>,
   <<"I","n","t","e","r","a","c","t","i","v","e","R","e","s","o","u","r","c","e">>,
   <<"M","o","v","i","n","g","I","m","a","g","e">>,
   <<"P","h","y","s","i","c","a","l","O","b","j","e","c","t">>,
   <<"S","e","r","v","i","c","e">>,
   <<"S","o","f","t","w","a","r","e">>,
   <<"S","o","u","n","d">>,
   <<"S","t","i","l","l","I","m","a","g","e">>,
   <<"T","e","x","t">>}

SubjectScheme ==
  {<<"L","C","S","H">>,
   <<"M","e","S","H">>,
   <<"D","D","C">>,
   <<"U","D","C">>,
   <<"L","C","C">>,
   <<"A","G","R","O","V","O","C">>,
   <<"A","A","T">>,
   <<"k","e","y","w","o","r","d">>,
   <<"l","o","c","a","l">>}

DateScheme ==
  {<<"W","3","C","D","T","F">>,
   <<"D","C","M","I"," ","P","e","r","i","o","d">>,
   <<"T","G","N">>,
   <<"l","o","c","a","l">>}

IdentifierScheme ==
  {<<"U","R","I">>,
   <<"U","R","N">>,
   <<"D","O","I">>,
   <<"I","S","B","N">>,
   <<"I","S","S","N">>,
   <<"H","a","n","d","l","e">>,
   <<"l","o","c","a","l">>}

----------------------------------------------------------------------------
(* Pydantic models: the fields of each class, in declaration order *)

TitleElement ==
  <<Field("value", TRUE, "str", 1, 1000, NoRegex, {}, ""),
    Field("type", FALSE, "str", 0, Unbounded, Cat(<<Bol, Alt(<<Lit(<<"m","a","i","n">>), Lit(<<"a","l","t","e","r","n","a","t","i","v","e">>), Lit(<<"t","r","a","n","s","l","a","t","e","d">>), Lit(<<"s","u","b","t","i","t","l","e">>), Lit(<<"u","n","i","f","o","r","m">>), Lit(<<"a","b","b","r","e","v","i","a","t","e","d">>), Lit(<<"e","x","p","a","n","d","e","d">>)>>), Eol>>), {}, ""),
    Field("language", FALSE, "enum", 0, Unbounded, NoRegex, ISO639_1, "")>>

CreatorElement ==
  <<Field("name", TRUE, "str", 1, 500, NoRegex, {}, ""),
    Field("type", FALSE, "str", 0, Unbounded, Cat(<<Bol, Alt(<<Lit(<<"p","e","r","s","o","n","a","l">>), Lit(<<"c","o","r","p","o","r","a","t","e">>), Lit(<<"c","o","n","f","e","r","e","n","c","e">>), Lit(<<"f","a","m","i","l","y">>)>>), Eol>>), {}, ""),
    Field("affiliation", FALSE, "str", 0, 500, NoRegex, {}, ""),
    Field("orcid", FALSE, "str", 0, Unbounded, NoRegex, {}, ""),
    Field("role", FALSE, "str", 0, Unbounded, Cat(<<Bol, Alt(<<Lit(<<"a","u","t","h","o","r">>), Lit(<<"p","r","i","n","c","i","p","a","l"," ","i","n","v","e","s","t","i","g","a","t","o","r">>), Lit(<<"c","o","-","i","n","v","e","s","t","i","g","a","t","o","r">>), Lit(<<"r","e","s","e","a","r","c","h","e","r">>), Lit(<<"a","n","a","l","y","s","t">>), Lit(<<"i","n","s","t","i","t","u","t","i","o","n","a","l"," ","a","u","t","h","o","r">>)>>), Eol>>), {}, "")>>

SubjectElement ==
  <<Field("value", TRUE, "str", 1, 500, NoRegex, {}, ""),
    Field("scheme", FALSE, "enum", 0, Unbounded, NoRegex, SubjectScheme, ""),
    Field("uri", FALSE, "url", 0, Unbounded, NoRegex, {}, "AnyUrl"),
    Field("note", FALSE, "str", 0, 200, NoRegex, {}, "")>>

DescriptionElement ==
  <<Field("value", TRUE, "str", 1, 5000, NoRegex, {}, ""),
    Field("type", FALSE, "str", 0, Unbounded, Cat(<<Bol, Alt(<<Lit(<<"a","b","s","t","r","a","c","t">>), Lit(<<"s","u","m","m","a","r","y">>), Lit(<<"t","a","b","l","e","O","f","C","o","n","t","e","n","t","s">>), Lit(<<"m","e","t","h","o","d","s">>), Lit(<<"p","u","r","p","o","s","e">>), Lit(<<"s","c","o","p","e">>), Lit(<<"p","r","o","v","e","n","a","n","c","e">>), Lit(<<"r","e","v","i","e","w">>), Lit(<<"v","e","r","s","i","o","n">>), Lit(<<"o","t","h","e","r">>)>>), Eol>>), {}, ""),
    Field("language", FALSE, "enum", 0, Unbounded, NoRegex, ISO639_1, "")>>

PublisherElement ==
  <<Field("name", TRUE, "str", 1, 500, NoRegex, {}, ""),
    Field("type", FALSE, "str", 0, Unbounded, Cat(<<Bol, Alt(<<Lit(<<"c","o","m","m","e","r","c","i","a","l">>), Lit(<<"u","n","i","v","e","r","s","i","t","y">>), Lit(<<"g","o","v","e","r","n","m","e","n","t">>), Lit(<<"s","o","c","i","e","t","y">>), Lit(<<"i","n","d","i","v","i","d","u","a","l">>), Lit(<<"o","t","h","e","r">>)>>), Eol>>), {}, ""),
    Field("location", FALSE, "str", 0, 200, NoRegex, {}, ""),
    Field("website", FALSE, "url", 0, Unbounded, NoRegex, {}, "HttpUrl"),
    Field("role", FALSE, "str", 0, Unbounded, Cat(<<Bol, Alt(<<Lit(<<"p","u","b","l","i","s","h","e","r">>), Lit(<<"c","o","-","p","u","b","l","i","s","h","e","r">>), Lit(<<"d","i","s","t","r","i","b","u","t","o","r">>), Lit(<<"s","p","o","n","s","o","r">>)>>), Eol>>), {}, "")>>

ContributorElement ==
  <<Field("name", TRUE, "str", 1, 500, NoRegex, {}, ""),
    Field("type", FALSE, "str", 0, Unbounded, Cat(<<Bol, Alt(<<Lit(<<"p","e","r","s","o","n","a","l">>), Lit(<<"c","o","r","p","o","r","a","t","e">>), Lit(<<"c","o","n","f","e","r","e","n","c","e">>), Lit(<<"f","a","m","i","l","y">>)>>), Eol>>), {}, ""),
    Field("role", FALSE, "str", 0, Unbounded, Cat(<<Bol, Alt(<<Lit(<<"e","d","i","t","o","r">>), Lit(<<"t","r","a","n","s","l","a","t","o","r">>), Lit(<<"i","l","l","u","s","t","r","a","t","o","r">>), Lit(<<"d","a","t","a"," ","c","o","l","l","e","c","t","o","r">>), Lit(<<"a","d","v","i","s","o","r">>), Lit(<<"r","e","v","i","e","w","e","r">>), Lit(<<"s","p","o","n","s","o","r">>), Lit(<<"f","u","n","d","e","r">>), Lit(<<"d","i","s","t","r","i","b","u","t","o","r">>), Lit(<<"g","r","a","p","h","i","c","s"," ","d","e","s","i","g","n">>), Lit(<<"d","a","t","a"," ","a","n","a","l","y","s","t">>), Lit(<<"p","e","e","r"," ","r","e","v","i","e","w","e","r">>), Lit(<<"o","t","h","e","r">>)>>), Eol>>), {}, ""),
    Field("affiliation", FALSE, "str", 0, 500, NoRegex, {}, "")>>

DateElement ==
  <<Field("value", TRUE, "str", 1, Unbounded, NoRegex, {}, ""),
    Field("type", FALSE, "str", 0, Unbounded, Cat(<<Bol, Alt(<<Lit(<<"c","r","e","a","t","e","d">>), Lit(<<"v","a","l","i","d">>), Lit(<<"a","v","a","i","l","a","b","l","e">>), Lit(<<"i","s","s","u","e","d">>), Lit(<<"m","o","d","i","f","i","e","d">>), Lit(<<"s","u","b","m","i","t","t","e","d">>), Lit(<<"a","c","c","e","p","t","e","d">>), Lit(<<"c","o","p","y","r","i","g","h","t","e","d">>), Lit(<<"c","o","l","l","e","c","t","e","d">>), Lit(<<"p","u","b","l","i","s","h","e","d">>), Lit(<<"t","e","m","p","o","r","a","l","_","c","o","v","e","r","a","g","e">>)>>), Eol>>), {}, ""),
    Field("scheme", FALSE, "enum", 0, Unbounded, NoRegex, DateScheme, ""),
    Field("note", FALSE, "str", 0, 200, NoRegex, {}, "")>>

TypeElement ==
  <<Field("value", TRUE, "str", 1, 200, NoRegex, {}, ""),
    Field("scheme", FALSE, "str", 0, Unbounded, Cat(<<Bol, Alt(<<Lit(<<"D","C","M","I"," ","T","y","p","e"," ","V","o","c","a","b","u","l","a","r","y">>), Lit(<<"l","o","c","a","l">>), Lit(<<"A","A","T">>), Lit(<<"M","A","R","C"," ","G","e","n","r","e"," ","T","e","r","m","s">>)>>), Eol>>), {}, ""),
    Field("uri", FALSE, "url", 0, Unbounded, NoRegex, {}, "AnyUrl")>>

FormatElement ==
  <<Field("value", TRUE, "str", 1, 200, NoRegex, {}, ""),
    Field("type", FALSE, "str", 0, Unbounded, Cat(<<Bol, Alt(<<Lit(<<"m","e","d","i","a","_","t","y","p","e">>), Lit(<<"e","x","t","e","n","t">>), Lit(<<"m","e","d","i","u","m">>), Lit(<<"d","i","m","e","n","s","i","o","n","s">>), Lit(<<"f","i","l","e","_","s","i","z","e">>)>>), Eol>>), {}, ""),
    Field("scheme", FALSE, "str", 0, Unbounded, Cat(<<Bol, Alt(<<Lit(<<"I","M","T">>), Lit(<<"l","o","c","a","l">>)>>), Eol>>), {}, "")>>

IdentifierElement ==
  <<Field("value", TRUE, "str", 1, 500, NoRegex, {}, ""),
    Field("type", FALSE, "str", 0, Unbounded, Cat(<<Bol, Alt(<<Lit(<<"D","O","I">>), Lit(<<"I","S","B","N">>), Lit(<<"I","S","S","N">>), Lit(<<"U","R","I">>), Lit(<<"U","R","L">>), Lit(<<"U","R","N">>), Lit(<<"H","a","n","d","l","e">>), Lit(<<"P","M","I","D">>), Lit(<<"P","M","C">>), Lit(<<"a","r","X","i","v">>), Lit(<<"l","o","c","a","l">>)>>), Eol>>), {}, ""),
    Field("scheme", FALSE, "enum", 0, Unbounded, NoRegex, IdentifierScheme, ""),
    Field("note", FALSE, "str", 0, 200, NoRegex, {}, "")>>

SourceElement ==
  <<Field("value", TRUE, "str", 1, 1000, NoRegex, {}, ""),
    Field("type", FALSE, "str", 0, Unbounded, Cat(<<Bol, Alt(<<Lit(<<"d","a","t","a","s","e","t">>), Lit(<<"p","u","b","l","i","c","a","t","i","o","n">>), Lit(<<"w","e","b","s","i","t","e">>), Lit(<<"d","a","t","a","b","a","s","e">>), Lit(<<"c","o","l","l","e","c","t","i","o","n">>), Lit(<<"p","u","b","l","i","c","a","t","i","o","n","_","s","e","r","i","e","s">>), Lit(<<"c","o","n","f","e","r","e","n","c","e","_","p","r","o","c","e","e","d","i","n","g","s">>), Lit(<<"r","e","p","o","r","t">>), Lit(<<"t","h","e","s","i","s">>), Lit(<<"r","e","m","o","t","e","_","s","e","n","s","i","n","g","_","d","a","t","a">>), Lit(<<"f","i","e","l","d","_","d","a","t","a">>)>>), Eol>>), {}, ""),
    Field("identifier", FALSE, "str", 0, 500, NoRegex, {}, "")>>

LanguageElement ==
  <<Field("value", TRUE, "str", 2, 3, NoRegex, {}, ""),
    Field("scheme", FALSE, "str", 0, Unbounded, Cat(<<Bol, Alt(<<Lit(<<"I","S","O"," ","6","3","9","-","1">>), Lit(<<"I","S","O"," ","6","3","9","-","2">>), Lit(<<"I","S","O"," ","6","3","9","-","3">>), Lit(<<"R","F","C"," ","3","0","6","6">>), Lit(<<"l","o","c","a","l">>)>>), Eol>>), {}, ""),
    Field("name", FALSE, "str", 0, 100, NoRegex, {}, ""),
    Field("note", FALSE, "str", 0, 200, NoRegex, {}, "")>>

RelationElement ==
  <<Field("value", TRUE, "str", 1, 500, NoRegex, {}, ""),
    Field("type", FALSE, "str", 0, Unbounded, Cat(<<Bol, Alt(<<Lit(<<"i","s","V","e","r","s","i","o","n","O","f">>), Lit(<<"h","a","s","V","e","r","s","i","o","n">>), Lit(<<"i","s","R","e","p","l","a","c","e","d","B","y">>), Lit(<<"r","e","p","l","a","c","e","s">>), Lit(<<"i","s","R","e","q","u","i","r","e","d","B","y">>), Lit(<<"r","e","q","u","i","r","e","s">>), Lit(<<"i","s","P","a","r","t","O","f">>), Lit(<<"h","a","s","P","a","r","t">>), Lit(<<"i","s","R","e","f","e","r","e","n","c","e","d","B","y">>), Lit(<<"r","e","f","e","r","e","n","c","e","s">>), Lit(<<"i","s","F","o","r","m","a","t","O","f">>), Lit(<<"h","a","s","F","o","r","m","a","t">>), Lit(<<"c","o","n","f","o","r","m","s","T","o">>), Lit(<<"i","s","B","a","s","e","d","O","n">>), Lit(<<"i","s","B","a","s","i","s","F","o","r">>), Lit(<<"c","o","n","t","i","n","u","e","s">>), Lit(<<"i","s","C","o","n","t","i","n","u","e","d","B","y">>), Lit(<<"a","c","c","o","m","p","a","n","i","e","s">>), Lit(<<"i","s","A","c","c","o","m","p","a","n","i","e","d","B","y">>), Lit(<<"i","s","S","u","p","p","l","e","m","e","n","t","T","o">>), Lit(<<"i","s","S","u","p","p","l","e","m","e","n","t","e","d","B","y">>)>>), Eol>>), {}, ""),
    Field("description", FALSE, "str", 0, 500, NoRegex, {}, "")>>

CoverageElement ==
  <<Field("value", TRUE, "str", 1, 500, NoRegex, {}, ""),
    Field("type", FALSE, "str", 0, Unbounded, Cat(<<Bol, Alt(<<Lit(<<"s","p","a","t","i","a","l">>), Lit(<<"t","e","m","p","o","r","a","l">>), Lit(<<"j","u","r","i","s","d","i","c","t","i","o","n">>)>>), Eol>>), {}, ""),
    Field("scheme", FALSE, "str", 0, Unbounded, Cat(<<Bol, Alt(<<Lit(<<"T","G","N">>), Lit(<<"L","C","S","H">>), Lit(<<"G","e","o","N","a","m","e","s">>), Lit(<<"I","S","O"," ","3","1","6","6">>), Lit(<<"W","G","S","8","4">>), Lit(<<"W","3","C","D","T","F">>), Lit(<<"l","o","c","a","l">>)>>), Eol>>), {}, ""),
    Field("coordinates", FALSE, "str", 0, Unbounded, NoRegex, {}, ""),
    Field("description", FALSE, "str", 0, 500, NoRegex, {}, "")>>

RightsElement ==
  <<Field("value", TRUE, "str", 1, 1000, NoRegex, {}, ""),
    Field("type", FALSE, "str", 0, Unbounded, Cat(<<Bol, Alt(<<Lit(<<"c","o","p","y","r","i","g","h","t">>), Lit(<<"l","i","c","e","n","s","e">>), Lit(<<"a","c","c","e","s","s","_","r","i","g","h","t","s">>), Lit(<<"u","s","e","_","r","e","s","t","r","i","c","t","i","o","n","s">>), Lit(<<"d","a","t","a","_","r","i","g","h","t","s">>), Lit(<<"e","m","b","a","r","g","o">>), Lit(<<"t","e","r","m","s","_","o","f","_","u","s","e">>)>>), Eol>>), {}, ""),
    Field("uri", FALSE, "url", 0, Unbounded, NoRegex, {}, "AnyUrl"),
    Field("description", FALSE, "str", 0, 500, NoRegex, {}, ""),
    Field("note", FALSE, "str", 0, 200, NoRegex, {}, "")>>

FundingElement ==
  <<Field("agency", TRUE, "str", 1, 300, NoRegex, {}, ""),
    Field("grant_number", FALSE, "str", 0, 100, NoRegex, {}, ""),
    Field("country", FALSE, "enum", 0, Unbounded, NoRegex, ISO3166_1, "")>>

QualityElement ==
  <<Field("peer_review", FALSE, "bool", 0, Unbounded, NoRegex, {}, ""),
    Field("review_type", FALSE, "str", 0, Unbounded, Cat(<<Bol, Alt(<<Lit(<<"s","i","n","g","l","e","-","b","l","i","n","d">>), Lit(<<"d","o","u","b","l","e","-","b","l","i","n","d">>), Lit(<<"o","p","e","n">>), Lit(<<"p","o","s","t","-","p","u","b","l","i","c","a","t","i","o","n">>), Lit(<<"e","d","i","t","o","r","i","a","l">>)>>), Eol>>), {}, ""),
    Field("editorial_board_approved", FALSE, "bool", 0, Unbounded, NoRegex, {}, "")>>

TechnicalElement ==
  <<Field("creation_software", FALSE, "str", 0, 200, NoRegex, {}, ""),
    Field("figures_software", FALSE, "str", 0, 200, NoRegex, {}, ""),
    Field("data_analysis_software", FALSE, "str", 0, 200, NoRegex, {}, "")>>

PreservationElement ==
  <<Field("checksum", FALSE, "str", 0, Unbounded, Cat(<<Bol, Alt(<<Lit(<<"m","d","5">>), Lit(<<"s","h","a","1">>), Lit(<<"s","h","a","2","5","6">>), Lit(<<"s","h","a","5","1","2">>)>>), Lit(<<":">>), Rep(In({"a","b","c","d","e","f"} \cup {"A","B","C","D","E","F"} \cup {"0","1","2","3","4","5","6","7","8","9"}), 1, Unbounded), Eol>>), {}, ""),
    Field("preservation_level", FALSE, "str", 0, Unbounded, Cat(<<Bol, Alt(<<Lit(<<"b","i","t","-","l","e","v","e","l">>), Lit(<<"l","o","g","i","c","a","l">>), Lit(<<"f","u","l","l">>), Lit(<<"n","o","n","e">>)>>), Eol>>), {}, ""),
    Field("migration_path", FALSE, "str", 0, 200, NoRegex, {}, "")>>

AdditionalMetadata ==
  <<Field("funding", FALSE, "list", 0, Unbounded, NoRegex, {}, "FundingElement"),
    Field("quality", FALSE, "model", 0, Unbounded, NoRegex, {}, "QualityElement"),
    Field("technical", FALSE, "model", 0, Unbounded, NoRegex, {}, "TechnicalElement"),
    Field("preservation", FALSE, "model", 0, Unbounded, NoRegex, {}, "PreservationElement")>>

MetadataRecord ==
  <<Field("created_date", FALSE, "str", 0, Unbounded, Cat(<<Bol, Rep(In(Digit), 4, 4), Lit(<<"-">>), Rep(In(Digit), 2, 2), Lit(<<"-">>), Rep(In(Digit), 2, 2), Lit(<<"T">>), Rep(In(Digit), 2, 2), Lit(<<":">>), Rep(In(Digit), 2, 2), Lit(<<":">>), Rep(In(Digit), 2, 2), Lit(<<"Z">>), Eol>>), {}, ""),
    Field("created_by", FALSE, "str", 0, 200, NoRegex, {}, ""),
    Field("last_modified", FALSE, "str", 0, Unbounded, Cat(<<Bol, Rep(In(Digit), 4, 4), Lit(<<"-">>), Rep(In(Digit), 2, 2), Lit(<<"-">>), Rep(In(Digit), 2, 2), Lit(<<"T">>), Rep(In(Digit), 2, 2), Lit(<<":">>), Rep(In(Digit), 2, 2), Lit(<<":">>), Rep(In(Digit), 2, 2), Lit(<<"Z">>), Eol>>), {}, ""),
    Field("modified_by", FALSE, "str", 0, 200, NoRegex, {}, ""),
    Field("record_identifier", FALSE, "str", 0, 100, NoRegex, {}, ""),
    Field("schema_version", FALSE, "str", 0, 100, NoRegex, {}, ""),
    Field("encoding", FALSE, "str", 0, Unbounded, Cat(<<Bol, Lit(<<"U","T","F","-","8">>), Eol>>), {}, "")>>

DublinCore ==
  <<Field("title", FALSE, "list", 0, Unbounded, NoRegex, {}, "TitleElement"),
    Field("creator", FALSE, "list", 0, Unbounded, NoRegex, {}, "CreatorElement"),
    Field("subject", FALSE, "list", 0, Unbounded, NoRegex, {}, "SubjectElement"),
    Field("description", FALSE, "list", 0, Unbounded, NoRegex, {}, "DescriptionElement"),
    Field("publisher", FALSE, "list", 0, Unbounded, NoRegex, {}, "PublisherElement"),
    Field("contributor", FALSE, "list", 0, Unbounded, NoRegex, {}, "ContributorElement"),
    Field("date", FALSE, "list", 0, Unbounded, NoRegex, {}, "DateElement"),
    Field("type", FALSE, "list", 0, Unbounded, NoRegex, {}, "TypeElement"),
    Field("format", FALSE, "list", 0, Unbounded, NoRegex, {}, "FormatElement"),
    Field("identifier", FALSE, "list", 0, Unbounded, NoRegex, {}, "IdentifierElement"),
    Field("source", FALSE, "list", 0, Unbounded, NoRegex, {}, "SourceElement"),
    Field("language", FALSE, "list", 0, Unbounded, NoRegex, {}, "LanguageElement"),
    Field("relation", FALSE, "list", 0, Unbounded, NoRegex, {}, "RelationElement"),
    Field("coverage", FALSE, "list", 0, Unbounded, NoRegex, {}, "CoverageElement"),
    Field("rights", FALSE, "list", 0, Unbounded, NoRegex, {}, "RightsElement")>>

DublinCoreDocument ==
  <<Field("dublin_core", TRUE, "model", 0, Unbounded, NoRegex, {}, "DublinCore"),
    Field("additional_metadata", FALSE, "model", 0, Unbounded, NoRegex, {}, "AdditionalMetadata"),
    Field("metadata_record", FALSE, "model", 0, Unbounded, NoRegex, {}, "MetadataRecord")>>

ModelNames ==
  {"TitleElement", "CreatorElement", "SubjectElement", "DescriptionElement", "PublisherElement", "ContributorElement", "DateElement", "TypeElement", "FormatElement", "IdentifierElement", "SourceElement", "LanguageElement", "RelationElement", "CoverageElement", "RightsElement", "FundingElement", "QualityElement", "TechnicalElement", "PreservationElement", "AdditionalMetadata", "MetadataRecord", "DublinCore", "DublinCoreDocument"}

Fields(cls) ==
  CASE cls = "TitleElement" -> TitleElement
    [] cls = "CreatorElement" -> CreatorElement
    [] cls = "SubjectElement" -> SubjectElement
    [] cls = "DescriptionElement" -> DescriptionElement
    [] cls = "PublisherElement" -> PublisherElement
    [] cls = "ContributorElement" -> ContributorElement
    [] cls = "DateElement" -> DateElement
    [] cls = "TypeElement" -> TypeElement
    [] cls = "FormatElement" -> FormatElement
    [] cls = "IdentifierElement" -> IdentifierElement
    [] cls = "SourceElement" -> SourceElement
    [] cls = "LanguageElement" -> LanguageElement
    [] cls = "RelationElement" -> RelationElement
    [] cls = "CoverageElement" -> CoverageElement
    [] cls = "RightsElement" -> RightsElement
    [] cls = "FundingElement" -> FundingElement
    [] cls = "QualityElement" -> QualityElement
    [] cls = "TechnicalElement" -> TechnicalElement
    [] cls = "PreservationElement" -> PreservationElement
    [] cls = "AdditionalMetadata" -> AdditionalMetadata
    [] cls = "MetadataRecord" -> MetadataRecord
    [] cls = "DublinCore" -> DublinCore
    [] cls = "DublinCoreDocument" -> DublinCoreDocument
----------------------------------------------------------------------------
(* Validators of the element classes (@validator, @root_validator).  Each  *)
(* returns the message of the ValueError it raises, or Ok(v) with the      *)
(* value it returns.  values holds the fields validated before this one.   *)

Ok(v) ==
  [ok |-> TRUE, v |-> v, msg |-> ""]

Raise(msg) ==
  [ok |-> FALSE, v |-> Null, msg |-> msg]

W3CDTF ==
  <<"W","3","C","D","T","F">>

DCMI_Type_Vocabulary ==
  <<"D","C","M","I"," ","T","y","p","e"," ","V","o","c","a","b","u","l","a","r","y">>

DOI ==
  <<"D","O","I">>

ISBN ==
  <<"I","S","B","N">>

ISSN ==
  <<"I","S","S","N">>

ISO_639_1 ==
  <<"I","S","O"," ","6","3","9","-","1">>

ISO_639_2 ==
  <<"I","S","O"," ","6","3","9","-","2">>

ISO_639_3 ==
  <<"I","S","O"," ","6","3","9","-","3">>

\* CreatorElement, @validator('orcid')
validate_orcid_format(v) ==
  IF v # Null /\ ~ validate_orcid(v.s)
  THEN Raise("Invalid ORCID format")
  ELSE Ok(v)

\* DateElement, @validator('value')
validate_date_format(v, values) ==
  LET scheme == Get(values, "scheme")
  IN  IF scheme = Str(W3CDTF) /\ ~ validate_iso8601_date(v.s)
      THEN Raise("Invalid ISO 8601 date format for W3CDTF scheme")
      ELSE Ok(v)

\* TypeElement, @validator('value')
validate_dcmi_type(v, values) ==
  LET scheme == Get(values, "scheme")
  IN  IF scheme = Str(DCMI_Type_Vocabulary) /\ v.s \notin DCMITypeVocabulary
      THEN Raise("Invalid DCMI Type")
      ELSE Ok(v)

\* IdentifierElement, @validator('value')
validate_identifier_format(v, values) ==
  LET id_type == Get(values, "type")
  IN  IF id_type = Str(DOI) /\ ~ validate_doi(v.s)
      THEN Raise("Invalid DOI format")
      ELSE IF id_type = Str(ISBN) /\ ~ validate_isbn(v.s)
      THEN Raise("Invalid ISBN format")
      ELSE IF id_type = Str(ISSN) /\ ~ validate_issn(v.s)
      THEN Raise("Invalid ISSN format")
      ELSE Ok(v)

\* LanguageElement, @validator('value')
validate_language_code(v, values) ==
  LET scheme == Get(values, "scheme")
  IN  IF scheme = Str(ISO_639_1) /\ Len(v.s) # 2
      THEN Raise("ISO 639-1 codes must be 2 characters")
      ELSE IF scheme \in {Str(ISO_639_2), Str(ISO_639_3)} /\ Len(v.s) # 3
      THEN Raise("codes must be 3 characters")
      ELSE Ok(Str(LowerStr(v.s)))

\* CoverageElement, @validator('coordinates')
validate_coordinate_format(v) ==
  IF v # Null /\ ~ validate_coordinates(v.s)
  THEN Raise("Invalid coordinate format")
  ELSE Ok(v)

\* variant for comparison: the root validator checks the title only
validate_required_elements_title_only(values) ==
  IF ~ Truthy(Get(values, "title"))
  THEN Raise("At least one title element is required")
  ELSE Ok(Map(values))

\* variant for comparison: the root validator tests `is None` instead of the
\* truth value, so that an empty list counts as present
validate_required_elements_is_none(values) ==
  IF Get(values, "title") = Null
  THEN Raise("At least one title element is required")
  ELSE IF Get(values, "identifier") = Null
  THEN Raise("At least one identifier element is required")
  ELSE Ok(Map(values))

\* DublinCore, @root_validator
validate_required_elements(values) ==
  IF ~ Truthy(Get(values, "title"))
  THEN Raise("At least one title element is required")
  ELSE IF ~ Truthy(Get(values, "identifier"))
  THEN Raise("At least one identifier element is required")
  ELSE Ok(Map(values))

\* the @validator functions of class cls for field name
ClassValidator(cls, name, v, values) ==
  CASE cls = "CreatorElement" /\ name = "orcid" -> validate_orcid_format(v)
    [] cls = "DateElement" /\ name = "value" -> validate_date_format(v, values)
    [] cls = "TypeElement" /\ name = "value" -> validate_dcmi_type(v, values)
    [] cls = "IdentifierElement" /\ name = "value" -> validate_identifier_format(v, values)
    [] cls = "LanguageElement" /\ name = "value" -> validate_language_code(v, values)
    [] cls = "CoverageElement" /\ name = "coordinates" -> validate_coordinate_format(v)
    [] OTHER -> Ok(v)

----------------------------------------------------------------------------
(* Pydantic (v1) validation of a value against a model class: what         *)
(* the DublinCoreDocument constructor does with the declarations above.  An error  *)
(* is the location of the offending value and pydantic's message.          *)

Err(loc, msg) ==
  [loc |-> loc, msg |-> msg]

\* the errors of a nested value, located below loc
Below(loc, errors) ==
  [i \in DOMAIN errors |-> [errors[i] EXCEPT !.loc = loc \o @]]

\* the set S in some order (pydantic reports unknown keys sorted)
RECURSIVE SetToSeq(_)
SetToSeq(S) ==
  IF S = {} THEN <<>>
  ELSE LET x == CHOOSE x \in S : TRUE IN <<x>> \o SetToSeq(S \ {x})

\* the shape pydantic's url_regex accepts with a scheme and a host
any_url_regex ==
  Cat(<<Bol, In({"a","b","c","d","e","f","g","h","i","j","k","l","m","n","o","p","q","r","s","t","u","v","w","x","y","z"}), Rep(In({"a","b","c","d","e","f","g","h","i","j","k","l","m","n","o","p","q","r","s","t","u","v","w","x","y","z"} \cup {"0","1","2","3","4","5","6","7","8","9"} \cup {"+"} \cup {"-"} \cup {"."}), 1, Unbounded), Lit(<<":","/","/">>), Rep(Cat(<<Rep(NotIn(Space \cup {":"} \cup {"/"}), 0, Unbounded), Rep(Cat(<<Lit(<<":">>), Rep(NotIn(Space \cup {"/"}), 0, Unbounded)>>), 0, 1), Lit(<<"@">>)>>), 0, 1), Rep(NotIn(Space \cup {"/"} \cup {":"} \cup {"?"} \cup {"#"}), 1, Unbounded), Rep(Cat(<<Lit(<<":">>), Rep(In(Digit), 1, Unbounded)>>), 0, 1), Rep(Cat(<<Lit(<<"/">>), Rep(NotIn(Space \cup {"?"} \cup {"#"}), 0, Unbounded)>>), 0, 1), Rep(Cat(<<Lit(<<"?">>), Rep(NotIn(Space \cup {"#"}), 0, Unbounded)>>), 0, 1), Rep(Cat(<<Lit(<<"#">>), Rep(NotIn(Space \cup {"#"}), 0, Unbounded)>>), 0, 1), Eol>>)

\* the same with scheme http or https and a top-level domain
http_url_regex ==
  Cat(<<Bol, Lit(<<"h","t","t","p">>), Rep(Lit(<<"s">>), 0, 1), Lit(<<":","/","/">>), Rep(Cat(<<Rep(NotIn(Space \cup {":"} \cup {"/"}), 0, Unbounded), Rep(Cat(<<Lit(<<":">>), Rep(NotIn(Space \cup {"/"}), 0, Unbounded)>>), 0, 1), Lit(<<"@">>)>>), 0, 1), Rep(Cat(<<Rep(NotIn(Space \cup {"/"} \cup {":"} \cup {"?"} \cup {"#"} \cup {"."}), 1, Unbounded), Lit(<<".">>)>>), 1, Unbounded), Rep(In({"a","b","c","d","e","f","g","h","i","j","k","l","m","n","o","p","q","r","s","t","u","v","w","x","y","z"}), 2, 63), Rep(Lit(<<".">>), 0, 1), Rep(Cat(<<Lit(<<":">>), Rep(In(Digit), 1, Unbounded)>>), 0, 1), Rep(Cat(<<Lit(<<"/">>), Rep(NotIn(Space \cup {"?"} \cup {"#"}), 0, Unbounded)>>), 0, 1), Rep(Cat(<<Lit(<<"?">>), Rep(NotIn(Space \cup {"#"}), 0, Unbounded)>>), 0, 1), Rep(Cat(<<Lit(<<"#">>), Rep(NotIn(Space \cup {"#"}), 0, Unbounded)>>), 0, 1), Eol>>)

\* bool_validator's accepted strings, lower-cased
BoolTrue ==
  {<<"1">>, <<"o","n">>, <<"t">>, <<"t","r","u","e">>, <<"y">>, <<"y","e","s">>}

BoolFalse ==
  {<<"0">>, <<"o","f","f">>, <<"f">>, <<"f","a","l","s","e">>, <<"n">>, <<"n","o">>}

\* str_validator: a str is kept, a bool (an int) is rendered, others fail
str_validator(v) ==
  CASE v.t = "str" -> Ok(v)
    [] v.t = "bool" -> Ok(Str(IF v.b THEN <<"T","r","u","e">> ELSE <<"F","a","l","s","e">>))
    [] OTHER -> Raise("str type expected")

\* constr_length_validator
constr_length_validator(field, v) ==
  IF Len(v.s) < field.min_length
  THEN Raise("ensure this value has at least min_length characters")
  ELSE IF field.max_length # Unbounded /\ Len(v.s) > field.max_length
  THEN Raise("ensure this value has at most max_length characters")
  ELSE Ok(v)

\* ConstrainedStr.validate: regex.match
constr_regex_validator(field, v) ==
  IF field.regex # NoRegex /\ ~ ReMatch(field.regex, v.s, FALSE)
  THEN Raise("string does not match regex")
  ELSE Ok(v)

enum_member_validator(field, v) ==
  IF v.t = "str" /\ v.s \in field.enum
  THEN Ok(v)
  ELSE Raise("value is not a valid enumeration member")

bool_validator(v) ==
  CASE v.t = "bool" -> Ok(v)
    [] v.t = "str" /\ LowerStr(v.s) \in BoolTrue -> Ok(Bool(TRUE))
    [] v.t = "str" /\ LowerStr(v.s) \in BoolFalse -> Ok(Bool(FALSE))
    [] OTHER -> Raise("value could not be parsed to a boolean")

url_validator(field, v) ==
  IF v.t # "str" THEN Raise("str type expected")
  ELSE IF field.cls = "HttpUrl" /\ ReMatch(http_url_regex, v.s, TRUE) THEN Ok(v)
  ELSE IF field.cls = "AnyUrl" /\ ReMatch(any_url_regex, v.s, TRUE) THEN Ok(v)
  ELSE Raise("invalid URL")

\* the rest of a str field's chain after constr_length_validator's outcome b
AfterLength(field, b) ==
  IF ~ b.ok THEN b ELSE constr_regex_validator(field, b.v)

\* the rest of a str field's chain after str_validator's outcome a
AfterStr(field, a) ==
  IF ~ a.ok THEN a ELSE AfterLength(field, constr_length_validator(field, a.v))

\* the validators of the field's type
TypeValidate(field, v) ==
  CASE field.ty = "str" -> AfterStr(field, str_validator(v))
    [] field.ty = "enum" -> enum_member_validator(field, v)
    [] field.ty = "bool" -> bool_validator(v)
    [] field.ty = "url" -> url_validator(field, v)

\* the class's @validator after the outcome typed of the type's validators
AfterType(cls, field, typed, values) ==
  IF ~ typed.ok THEN typed
  ELSE ClassValidator(cls, field.name, typed.v, values)

\* the validators of a scalar field in the order pydantic runs them: the
\* type's own, then the class's @validator; the first to fail ends the chain
ScalarValidate(cls, field, v, values) ==
  AfterType(cls, field, TypeValidate(field, v), values)

\* the outcome r of a scalar field's validators as errors and value
ScalarResult(r) ==
  IF r.ok THEN [errors |-> <<>>, v |-> r.v]
  ELSE [errors |-> <<Err(<<>>, r.msg)>>, v |-> Null]

FieldNames(cls) ==
  {Fields(cls)[k].name : k \in DOMAIN Fields(cls)}

RECURSIVE ValidateModel(_, _)
RECURSIVE ModelValidate(_, _)
RECURSIVE ValidateField(_, _, _, _)
RECURSIVE ValidateFields(_, _, _, _, _)
RECURSIVE ValidateItems(_, _, _, _, _)

\* ModelField.validate: errors and the validated value of one field
ValidateField(cls, field, v, values) ==
  IF v = Null
  THEN IF field.required
       THEN [errors |-> <<Err(<<>>, "none is not an allowed value")>>, v |-> Null]
       ELSE [errors |-> <<>>, v |-> Null]
  ELSE CASE field.ty = "model" -> ModelValidate(field.cls, v)
         [] field.ty = "list" ->
              IF v.t # "list"
              THEN [errors |-> <<Err(<<>>, "value is not a valid list")>>, v |-> Null]
              ELSE ValidateItems(field.cls, v.items, 1, <<>>, <<>>)
         [] OTHER -> ScalarResult(ScalarValidate(cls, field, v, values))

\* one item of a List[cls] field
ValidateItem(cls, item) ==
  IF item = Null
  THEN [errors |-> <<Err(<<>>, "none is not an allowed value")>>, v |-> Null]
  ELSE ModelValidate(cls, item)

\* the items after the k-th, whose result is r
NextItem(cls, items, k, done, errors, r) ==
  ValidateItems(cls, items, k + 1, Append(done, r.v),
                errors \o Below(<<ToString(k - 1)>>, r.errors))

\* the items of a List[cls] field from the k-th on; every item is validated
\* and the errors of all of them are collected
ValidateItems(cls, items, k, done, errors) ==
  IF k > Len(items)
  THEN [errors |-> errors, v |-> List(done)]
  ELSE NextItem(cls, items, k, done, errors, ValidateItem(cls, items[k]))

\* BaseModel.validate: a dict is validated as the model's fields; dict(value)
\* of an empty list or str is the empty dict; other values are no dict
\* (a non-empty list of key/value pairs, which dict() accepts, is not among
\* the values considered)
ModelValidate(cls, v) ==
  CASE v.t = "map" -> ValidateModel(cls, v.m)
    [] v.t = "list" /\ v.items = <<>> -> ValidateModel(cls, EmptyMap)
    [] v.t = "str" /\ v.s = <<>> -> ValidateModel(cls, EmptyMap)
    [] OTHER -> [errors |-> <<Err(<<>>, "value is not a valid dict")>>, v |-> Null]

\* the fields after the k-th, field, whose result is r: a field that fails
\* is left out of values and validation continues with the next field
NextField(cls, input, k, values, errors, field, r) ==
  IF r.errors = <<>>
  THEN ValidateFields(cls, input, k + 1, (field.name :> r.v) @@ values, errors)
  ELSE ValidateFields(cls, input, k + 1, values,
                      errors \o Below(<<field.name>>, r.errors))

\* the k-th field: a field the input lacks is an error when required and
\* None otherwise
ThisField(cls, input, k, values, errors, field) ==
  IF field.name \notin DOMAIN input
  THEN IF field.required
       THEN ValidateFields(cls, input, k + 1, values,
                           Append(errors, Err(<<field.name>>, "field required")))
       ELSE ValidateFields(cls, input, k + 1, (field.name :> Null) @@ values, errors)
  ELSE NextField(cls, input, k, values, errors, field,
                 ValidateField(cls, field, input[field.name], values))

\* variant for comparison: the loop over the fields ends at the first field that fails
ValidateFields_failfast(cls, input, k, values, errors) ==
  IF k > Len(Fields(cls)) \/ errors # <<>>
  THEN [errors |-> errors, values |-> values]
  ELSE ThisField(cls, input, k, values, errors, Fields(cls)[k])

\* validate_model, the loop over the fields from the k-th on, in declaration
\* order: values holds the fields validated so far
ValidateFields(cls, input, k, values, errors) ==
  IF k > Len(Fields(cls))
  THEN [errors |-> errors, values |-> values]
  ELSE ThisField(cls, input, k, values, errors, Fields(cls)[k])

\* whether the @root_validator of cls runs although fields have failed
\* (skip_on_failure defaults to False)
RootValidatorRuns(cls, errors) ==
  TRUE

\* variant for comparison: Config.extra = "ignore", pydantic's default
Config_extra_ignore(cls) ==
  "ignore"

\* class Config of BaseMetadataElement, which every class inherits
Config_extra(cls) ==
  "forbid"

\* the keys of input that are no field of cls, if Config.extra forbids them
ExtraKeys(cls, input) ==
  IF Config_extra(cls) = "forbid"
  THEN SetToSeq(DOMAIN input \ FieldNames(cls))
  ELSE <<>>

\* one error for each of the keys extra
ExtraErrors(extra) ==
  [i \in DOMAIN extra |-> Err(<<extra[i]>>, "extra fields not permitted")]

\* the root validator's error, if it runs and raises
RootErrors(cls, values, errors) ==
  IF cls = "DublinCore" /\ RootValidatorRuns(cls, errors)
       /\ ~ validate_required_elements(values).ok
  THEN <<Err(<<"__root__">>, validate_required_elements(values).msg)>>
  ELSE <<>>

\* the errors of the fields and of the unknown keys, then the root validator's
WithRoot(cls, values, errors) ==
  [errors |-> errors \o RootErrors(cls, values, errors), v |-> Map(values)]

\* the result f of the fields, then the unknown keys, then the root validator
AfterFields(cls, input, f) ==
  WithRoot(cls, f.values, f.errors \o ExtraErrors(ExtraKeys(cls, input)))

\* validate_model: the fields, then the keys no field has (Config.extra),
\* then the root validator
ValidateModel(cls, input) ==
  AfterFields(cls, input, ValidateFields(cls, input, 1, EmptyMap, <<>>))

----------------------------------------------------------------------------
(* Python float arithmetic (IEEE 754 binary64, round to nearest, ties to
   even) on the non-negative values the reports compute.  A float is
   [m, e]: m the 53 bits of the significand, most significant first, and
   e the exponent of its last bit; the value is m * 2^e.  Every value but
   zero has m[1] = 1, so two floats are equal iff their records are.  The
   ints that are divided and multiplied are below 2^20, and long numbers
   are handled in limbs of 11 bits. *)

\* the number of bits of the significand of a binary64
Precision ==
  53

\* the number of bits of a limb
LimbBits ==
  11

\* the number of limbs computed of the fraction of a quotient: enough for
\* the significand, the bit after it and the zeros before it
FractionLimbs ==
  7

RECURSIVE Pow2(_)
Pow2(k) ==
  IF k = 0 THEN 1 ELSE 2 * Pow2(k - 1)

LimbBase ==
  Pow2(LimbBits)

Zeros(n) ==
  [i \in 1..n |-> 0]

Zero ==
  [m |-> Zeros(Precision), e |-> 0]

\* the bits of the number with the given limbs, most significant first
LimbsBits(limbs) ==
  [j \in 1..(Len(limbs) * LimbBits) |->
     (limbs[(j - 1) \div LimbBits + 1]
        \div Pow2(LimbBits - 1 - ((j - 1) % LimbBits))) % 2]

RECURSIVE BitsNat(_)
\* the number with the given bits, which are at most those of a limb
BitsNat(b) ==
  IF b = <<>> THEN 0
  ELSE 2 * BitsNat(SubSeq(b, 1, Len(b) - 1)) + b[Len(b)]

\* the limbs of the number with the given bits
BitsLimbs(b) ==
  [k \in 1..((Len(b) + LimbBits - 1) \div LimbBits) |->
     BitsNat(SubSeq(Zeros(((Len(b) + LimbBits - 1) \div LimbBits) * LimbBits - Len(b)) \o b,
                    (k - 1) * LimbBits + 1, k * LimbBits))]

\* the bits b, not all 0, from the first 1 on
Strip(b) ==
  SubSeq(b, CHOOSE i \in DOMAIN b : b[i] = 1 /\ \A j \in 1..(i - 1) : b[j] = 0, Len(b))

\* the bits of the number after the one with bits b; one bit more if all
\* bits of b are 1
Incr(b) ==
  IF \A i \in DOMAIN b : b[i] = 1
  THEN <<1>> \o Zeros(Len(b))
  ELSE [i \in DOMAIN b |->
          IF \E j \in i..Len(b) : b[j] = 0
          THEN (IF \E j \in (i + 1)..Len(b) : b[j] = 0 THEN b[i] ELSE 1)
          ELSE 0]

\* the float for the bits kept, whose last bit has exponent e, after adding
\* one to them: a carry out of the first bit moves the exponent
Carried(kept, e) ==
  IF Len(kept) > Precision
  THEN [m |-> SubSeq(kept, 1, Precision), e |-> e + 1]
  ELSE [m |-> kept, e |-> e]

\* the float nearest to (b + x) * 2^e, where b (with b[1] = 1) are bits and
\* 0 <= x < 1 is zero iff ~ sticky; a tie goes to the even significand
Round(b, sticky, e) ==
  IF Len(b) <= Precision
  THEN [m |-> b \o Zeros(Precision - Len(b)), e |-> e - (Precision - Len(b))]
  ELSE IF /\ b[Precision + 1] = 1
          /\ \/ sticky
             \/ \E i \in (Precision + 2)..Len(b) : b[i] = 1
             \/ b[Precision] = 1
       THEN Carried(Incr(SubSeq(b, 1, Precision)), e + Len(b) - Precision)
       ELSE [m |-> SubSeq(b, 1, Precision), e |-> e + Len(b) - Precision]

\* float(n) of an int n >= 0
IntToFloat(n) ==
  IF n = 0 THEN Zero
  ELSE Round(Strip(LimbsBits(<<n \div (LimbBase * LimbBase),
                               (n \div LimbBase) % LimbBase,
                               n % LimbBase>>)), FALSE, 0)

RECURSIVE DivLimbs(_, _, _)
\* long division: the first k limbs of the fraction r / q, r < q
DivLimbs(r, q, k) ==
  IF k = 0 THEN <<>>
  ELSE <<(r * LimbBase) \div q>> \o DivLimbs((r * LimbBase) % q, q, k - 1)

RECURSIVE DivRest(_, _, _)
\* what the division leaves after k limbs
DivRest(r, q, k) ==
  IF k = 0 THEN r ELSE DivRest((r * LimbBase) % q, q, k - 1)

\* p / q of ints p >= 0, q > 0: the float nearest to the quotient
FloatDiv(p, q) ==
  IF p = 0 THEN Zero
  ELSE Round(Strip(LimbsBits(<<p \div q>> \o DivLimbs(p % q, q, FractionLimbs))),
             DivRest(p % q, q, FractionLimbs) # 0,
             0 - LimbBits * FractionLimbs)

RECURSIVE MulLimbs(_, _, _)
\* the limbs of limbs * n + carry
MulLimbs(limbs, n, carry) ==
  IF limbs = <<>> THEN <<carry>>
  ELSE Append(MulLimbs(SubSeq(limbs, 1, Len(limbs) - 1), n,
                       (limbs[Len(limbs)] * n + carry) \div LimbBase),
              (limbs[Len(limbs)] * n + carry) % LimbBase)

\* f * n of a float f and an int n >= 0: the float nearest to the product
FloatMul(f, n) ==
  IF f = Zero \/ n = 0 THEN Zero
  ELSE Round(Strip(LimbsBits(MulLimbs(BitsLimbs(f.m), n, 0))), FALSE, f.e)

----------------------------------------------------------------------------
(* Functional validation pipeline *)

\* the 15 element kinds, the fields of DublinCore
Kinds ==
  <<"title", "creator", "subject", "description", "publisher", "contributor",
    "date", "type", "format", "identifier", "source", "language", "relation",
    "coverage", "rights">>

\* an exception: the name of its class, its message and, for the ValueError
\* made of a pydantic ValidationError, the errors the message lists
Exc(type, msg, errors) ==
  [type |-> type, msg |-> msg, errors |-> errors]

NoExc ==
  Exc("", "", <<>>)

\* the outcome of a call: a returned value or a raised exception
Returned(v) ==
  [raised |-> FALSE, v |-> v, exc |-> NoExc]

Raised(exc) ==
  [raised |-> TRUE, v |-> Null, exc |-> exc]

\* variant for comparison: FileNotFoundError is not turned into ValueError
load_yaml_file_unconverted(f) ==
  CASE f.kind = "missing" -> Raised(Exc("FileNotFoundError", "No such file or directory", <<>>))
    [] f.kind = "unreadable" -> Raised(Exc("PermissionError", "Permission denied", <<>>))
    [] f.kind = "directory" -> Raised(Exc("IsADirectoryError", "Is a directory", <<>>))
    [] f.kind = "binary" -> Raised(Exc("UnicodeDecodeError", "invalid start byte", <<>>))
    [] f.kind = "text" /\ ~ f.wellformed -> Raised(Exc("ValueError", "Invalid YAML format", <<>>))
    [] f.kind = "text" /\ f.wellformed -> Returned(f.tree)

\* open() and yaml.safe_load() on the file f; only yaml.YAMLError and
\* FileNotFoundError are turned into ValueError, other errors pass through
load_yaml_file(f) ==
  CASE f.kind = "missing" -> Raised(Exc("ValueError", "File not found", <<>>))
    [] f.kind = "unreadable" -> Raised(Exc("PermissionError", "Permission denied", <<>>))
    [] f.kind = "directory" -> Raised(Exc("IsADirectoryError", "Is a directory", <<>>))
    [] f.kind = "binary" -> Raised(Exc("UnicodeDecodeError", "invalid start byte", <<>>))
    [] f.kind = "text" /\ ~ f.wellformed -> Raised(Exc("ValueError", "Invalid YAML format", <<>>))
    [] f.kind = "text" /\ f.wellformed -> Returned(f.tree)

\* the except clause of validate_document on the result r of the constructor
Reraise(r) ==
  IF r.errors = <<>> THEN Returned(r.v)
  ELSE Raised(Exc("ValueError", "Validation failed", r.errors))

\* the DublinCoreDocument constructor on the keys of data; data that is no
\* mapping makes the call itself raise TypeError, which is not caught here
validate_document(data) ==
  IF data.t # "map"
  THEN Raised(Exc("TypeError", "argument after ** must be a mapping", <<>>))
  ELSE Reraise(ValidateModel("DublinCoreDocument", data.m))

RECURSIVE SumCounts(_, _)
\* sum(element_counts.values()) over the first k kinds
SumCounts(element_counts, k) ==
  IF k = 0 THEN 0 ELSE element_counts[Kinds[k]] + SumCounts(element_counts, k - 1)

\* len(dc.<kind> or []) for each of the 15 kinds
element_counts(dc) ==
  [kind \in {Kinds[k] : k \in DOMAIN Kinds} |-> LenOrEmpty(dc[kind])]

\* sum(element_counts.values())
total_elements(counts) ==
  SumCounts(counts, Len(Kinds))

\* variant for comparison: counts every kind, populated or not
populated_elements_nonnegative(counts) ==
  Cardinality({k \in DOMAIN Kinds : counts[Kinds[k]] >= 0})

\* sum(1 for count in element_counts.values() if count > 0)
populated_elements(counts) ==
  Cardinality({k \in DOMAIN Kinds : counts[Kinds[k]] > 0})

\* (populated_elements / 15) * 100
completeness_percentage(populated) ==
  FloatMul(FloatDiv(populated, 15), 100)

\* the report for the counts of the document's elements
ReportOf(doc, counts) ==
  [validation_status |-> "PASSED",
   total_elements |-> total_elements(counts),
   populated_elements |-> populated_elements(counts),
   completeness_percentage |-> completeness_percentage(populated_elements(counts)),
   element_counts |-> counts,
   has_additional_metadata |-> doc.m["additional_metadata"] # Null,
   has_metadata_record |-> doc.m["metadata_record"] # Null]

create_validation_report(doc) ==
  ReportOf(doc, element_counts(doc.m["dublin_core"].m))

\* path.stat() on the file f
stat(f) ==
  IF f.kind = "missing"
  THEN Raised(Exc("FileNotFoundError", "No such file or directory", <<>>))
  ELSE Returned(f.size)

\* variant for comparison: the except clause catches ValueError only
IsException_ValueErrorOnly(type) ==
  type = "ValueError"

\* except Exception: every class but those that derive from BaseException only
IsException(type) ==
  type \notin {"KeyboardInterrupt", "SystemExit", "GeneratorExit"}

\* variant for comparison: every FAILED report is tagged ValueError
validation_decorator_ValueError(o) ==
  IF o.raised /\ IsException(o.exc.type)
  THEN Returned([validation_status |-> "FAILED",
                 error |-> [msg |-> o.exc.msg, errors |-> o.exc.errors],
                 error_type |-> "ValueError"])
  ELSE o

\* the wrapper around the function's outcome o: an exception that the except
\* clause catches becomes a returned FAILED report (error is str(e): the
\* message and, of a validation failure, the errors it lists)
validation_decorator(o) ==
  IF o.raised /\ IsException(o.exc.type)
  THEN Returned([validation_status |-> "FAILED",
                 error |-> [msg |-> o.exc.msg, errors |-> o.exc.errors],
                 error_type |-> o.exc.type])
  ELSE o

----------------------------------------------------------------------------
(* One call of validate_dublin_core_yaml(path) *)

VARIABLES
  input,     \* the file at path when the call starts
  fs,        \* the file at path now
  pc,        \* the position of the call: start, loaded, validated, reported, done
  data,      \* load_yaml_file's result
  document,  \* validate_document's result
  report,    \* create_validation_report's result
  result,    \* the outcome of the call: the value returned or the exception raised
  ran,       \* the steps run so far, each with whether it succeeded
  \* the batch command that makes the call, if one does
  directory,          \* the directory argument: what is at the path and the files the pattern matches
  continue_on_error,  \* the --continue-on-error option
  output_file,        \* whether --output is given
  at,                 \* the position of the command: idle, start, loop, call, summary, exit, exited, raised
  files,              \* the matched files
  file_index,         \* the position of the for loop in files
  results,
  failed_count,
  passed_count,
  batch_result,       \* the dict that is saved to the output file
  written,            \* whether the output file was written
  exit_code,          \* the exit status, once at = "exited"
  \* a call of validate_doi on its own
  doi_string,                \* the argument
  doi_returned              \* whether the call has returned, and what

call_vars ==
  <<input, fs, pc, data, document, report, result, ran>>

batch_vars ==
  <<directory, continue_on_error, output_file, at, files, file_index, results,
    failed_count, passed_count, batch_result, written, exit_code>>

doi_vars ==
  <<doi_string, doi_returned>>

vars ==
  <<call_vars, batch_vars, doi_vars>>

NoReport ==
  [validation_status |-> "NONE"]

NoResult ==
  [raised |-> FALSE, v |-> NoReport, exc |-> Exc("", "", <<>>)]

Step(name, ok) ==
  [step |-> name, ok |-> ok]

\* variant for comparison: the call goes on to the next statement after an exception
After_continue(raised, next) ==
  next

\* the position after a step: an exception leaves the function through the
\* decorator, a return goes on to the next statement
After(raised, next) ==
  IF raised THEN "done" ELSE next

\* the assignment and what follows, o being load_yaml_file's outcome
Parsed(o) ==
  /\ pc' = After(o.raised, "loaded")
  /\ data' = o.v
  /\ result' = IF o.raised THEN validation_decorator(o) ELSE result
  /\ ran' = Append(ran, Step("Parse", ~ o.raised))

\* data = load_yaml_file(path)
Parse ==
  /\ pc = "start"
  /\ Parsed(load_yaml_file(fs))
  /\ UNCHANGED <<input, fs, document, report, batch_vars, doi_vars>>

\* the assignment and what follows, o being validate_document's outcome
Validated(o) ==
  /\ pc' = After(o.raised, "validated")
  /\ document' = o.v
  /\ result' = IF o.raised THEN validation_decorator(o) ELSE result
  /\ ran' = Append(ran, Step("Validate", ~ o.raised))

\* document = validate_document(data)
Validate ==
  /\ pc = "loaded"
  /\ Validated(validate_document(data))
  /\ UNCHANGED <<input, fs, data, report, batch_vars, doi_vars>>

\* report = create_validation_report(document)
Report ==
  /\ pc = "validated"
  /\ report' = create_validation_report(document)
  /\ pc' = "reported"
  /\ ran' = Append(ran, Step("Report", TRUE))
  /\ UNCHANGED <<input, fs, data, document, result, batch_vars, doi_vars>>

\* the returned dict: the report rep, file_path and file_size_bytes of the
\* file f (o is the outcome of path.stat())
Returns(rep, f, o) ==
  IF o.raised THEN o
  ELSE Returned([validation_status |-> rep.validation_status,
                 total_elements |-> rep.total_elements,
                 populated_elements |-> rep.populated_elements,
                 completeness_percentage |-> rep.completeness_percentage,
                 element_counts |-> rep.element_counts,
                 has_additional_metadata |-> rep.has_additional_metadata,
                 has_metadata_record |-> rep.has_metadata_record,
                 file_path |-> f.path,
                 file_size_bytes |-> o.v])

\* return {**report, 'file_path': str(path), 'file_size_bytes': path.stat().st_size}
Return ==
  /\ pc = "reported"
  /\ result' = validation_decorator(Returns(report, fs, stat(fs)))
  /\ pc' = "done"
  /\ UNCHANGED <<input, fs, data, document, report, ran, batch_vars, doi_vars>>

\* another process removes the file while the call runs
RemoveFile ==
  /\ pc # "done"
  /\ fs.kind # "missing"
  /\ fs' = [fs EXCEPT !.kind = "missing"]
  /\ UNCHANGED <<input, pc, data, document, report, result, ran, batch_vars, doi_vars>>


----------------------------------------------------------------------------
(* The batch command, which calls validate_dublin_core_yaml for each file *)

NoDirectory ==
  [kind |-> "missing", files |-> <<>>]

NoBatchResult ==
  [summary |-> "none"]

\* no batch command runs: the call is made on its own
NoBatch ==
  /\ directory = NoDirectory
  /\ continue_on_error = TRUE
  /\ output_file = FALSE
  /\ at = "idle"
  /\ files = <<>>
  /\ file_index = 0
  /\ results = <<>>
  /\ failed_count = 0
  /\ passed_count = 0
  /\ batch_result = NoBatchResult
  /\ written = FALSE
  /\ exit_code = 0

NotReturned ==
  [done |-> FALSE, value |-> FALSE]

\* validate_doi is not called on its own
NoDoi ==
  /\ doi_string = <<>>
  /\ doi_returned = NotReturned

\* return bool(re.match(doi_pattern, doi, re.IGNORECASE))
ValidateDoi ==
  /\ ~ doi_returned.done
  /\ doi_string # <<>>
  /\ doi_returned' = [done |-> TRUE, value |-> validate_doi(doi_string)]
  /\ UNCHANGED <<doi_string, call_vars, batch_vars>>

\* the checks of the directory and the search for the files: a path that is
\* no directory ends the command with status 1, no matching file with
\* status 0; otherwise the loop starts with no results
Find ==
  /\ at = "start"
  /\ at' = IF directory.kind = "dir" /\ directory.files # <<>> THEN "loop" ELSE "exited"
  /\ exit_code' = IF directory.kind = "dir" THEN 0 ELSE 1
  /\ files' = IF directory.kind = "dir" THEN directory.files ELSE files
  /\ file_index' = 1
  /\ results' = <<>>
  /\ failed_count' = 0
  /\ UNCHANGED <<directory, continue_on_error, output_file, passed_count,
                 batch_result, written, call_vars, doi_vars>>

\* variant for comparison: every call is made on the first file
file_path_first(fileList, index) ==
  fileList[1]

\* for file_path in files
file_path(fileList, index) ==
  fileList[index]

\* result = validate_dublin_core_yaml(file_path): the call starts, with
\* local variables of its own
Call ==
  /\ at = "loop"
  /\ at' = "call"
  /\ input' = file_path(files, file_index)
  /\ fs' = file_path(files, file_index)
  /\ pc' = "start"
  /\ data' = Null
  /\ document' = Null
  /\ report' = NoReport
  /\ result' = NoResult
  /\ ran' = <<>>
  /\ UNCHANGED <<directory, continue_on_error, output_file, files, file_index,
                 results, failed_count, passed_count, batch_result, written,
                 exit_code, doi_vars>>

\* the dict that the except clause of the loop appends
error_result(exc, file) ==
  [validation_status |-> "FAILED",
   error |-> [msg |-> exc.msg, errors |-> exc.errors],
   file_path |-> file.path]

\* variant for comparison: no result counts as failed
IsFailed_never(r) ==
  FALSE

\* result.get('validation_status') == 'FAILED'
IsFailed(r) ==
  r.validation_status = "FAILED"

\* the position after the body of the loop: the next file, or the summary
\* after the last file and after break
NextFile(break) ==
  IF break \/ file_index = Len(files) THEN "summary" ELSE "loop"

\* the rest of the loop body after the call has ended: the returned report
\* is appended and counted; an exception of the call is counted, appended as
\* an error result and, unless --continue-on-error, ends the loop; what
\* `except Exception` does not catch ends the command
Collect ==
  /\ at = "call"
  /\ pc = "done"
  /\ results' = IF ~ result.raised THEN Append(results, result.v)
                ELSE IF IsException(result.exc.type)
                THEN Append(results, error_result(result.exc, files[file_index]))
                ELSE results
  /\ failed_count' = IF ~ result.raised
                     THEN (IF IsFailed(result.v) THEN failed_count + 1 ELSE failed_count)
                     ELSE IF IsException(result.exc.type) THEN failed_count + 1
                     ELSE failed_count
  /\ at' = IF ~ result.raised THEN NextFile(FALSE)
           ELSE IF IsException(result.exc.type) THEN NextFile(~ continue_on_error)
           ELSE "raised"
  /\ file_index' = file_index + 1
  /\ UNCHANGED <<directory, continue_on_error, output_file, files, passed_count,
                 batch_result, written, exit_code, call_vars, doi_vars>>

\* passed_count/len(results)*100 if results else 0 (the int 0 is written as
\* the float it equals)
success_rate(passed, total) ==
  IF total # 0 THEN FloatMul(FloatDiv(passed, total), 100) ELSE IntToFloat(0)

\* the summary and, if --output is given, the dict saved to the file; the
\* file may fail to be written, which is only printed
Summarize ==
  /\ at = "summary"
  /\ passed_count' = Len(results) - failed_count
  /\ batch_result' =
       IF output_file
       THEN [summary |-> [total_files |-> Len(results),
                          passed |-> passed_count',
                          failed |-> failed_count,
                          success_rate |-> success_rate(passed_count', Len(results))],
             results |-> results]
       ELSE NoBatchResult
  /\ written' \in IF output_file THEN BOOLEAN ELSE {FALSE}
  /\ at' = "exit"
  /\ UNCHANGED <<directory, continue_on_error, output_file, files, file_index,
                 results, failed_count, exit_code, call_vars, doi_vars>>

\* if failed_count > 0: raise typer.Exit(1)
Exit ==
  /\ at = "exit"
  /\ exit_code' = IF failed_count > 0 THEN 1 ELSE 0
  /\ at' = "exited"
  /\ UNCHANGED <<directory, continue_on_error, output_file, files, file_index,
                 results, failed_count, passed_count, batch_result, written,
                 call_vars, doi_vars>>

----------------------------------------------------------------------------
(* The files the call is made on *)

\* the size in bytes of a non-empty file
SomeSize ==
  231

\* marks a key that a mapping does not have
Absent ==
  [t |-> "absent"]

\* the mapping with the given <<key, value>> pairs, without the Absent ones
M(pairs) ==
  LET keep == {i \in DOMAIN pairs : pairs[i][2] # Absent}
  IN  Map([k \in {pairs[i][1] : i \in keep} |->
             pairs[CHOOSE i \in keep : pairs[i][1] = k][2]])

File(kind, wellformed, tree, size) ==
  [path |-> "record.yaml", kind |-> kind, wellformed |-> wellformed, tree |-> tree, size |-> size]

TextFile(tree) ==
  File("text", TRUE, tree, IF tree = Null THEN 0 ELSE SomeSize)

\* an instance that satisfies every rule of its kind
ValidInstance(kind) ==
  CASE kind = "title" -> M(<< <<"value", Str(<<"A"," ","T","i","t","l","e">>)>>, <<"type", Str(<<"m","a","i","n">>)>>, <<"language", Str(<<"e","n">>)>> >>)
    [] kind = "creator" -> M(<< <<"name", Str(<<"A","d","a"," ","L","o","v","e","l","a","c","e">>)>>, <<"orcid", Str(<<"0","0","0","0","-","0","0","0","2","-","1","8","2","5","-","0","0","9","7">>)>> >>)
    [] kind = "subject" -> M(<< <<"value", Str(<<"c","l","i","m","a","t","e">>)>>, <<"scheme", Str(<<"k","e","y","w","o","r","d">>)>> >>)
    [] kind = "description" -> M(<< <<"value", Str(<<"A"," ","t","e","x","t",".">>)>>, <<"type", Str(<<"a","b","s","t","r","a","c","t">>)>> >>)
    [] kind = "publisher" -> M(<< <<"name", Str(<<"P","r","e","s","s">>)>>, <<"type", Str(<<"u","n","i","v","e","r","s","i","t","y">>)>> >>)
    [] kind = "contributor" -> M(<< <<"name", Str(<<"B","o","b">>)>>, <<"role", Str(<<"e","d","i","t","o","r">>)>> >>)
    [] kind = "date" -> M(<< <<"value", Str(<<"2","0","2","4","-","0","1","-","0","1">>)>>, <<"scheme", Str(<<"W","3","C","D","T","F">>)>> >>)
    [] kind = "type" -> M(<< <<"value", Str(<<"D","a","t","a","s","e","t">>)>>, <<"scheme", Str(<<"D","C","M","I"," ","T","y","p","e"," ","V","o","c","a","b","u","l","a","r","y">>)>> >>)
    [] kind = "format" -> M(<< <<"value", Str(<<"t","e","x","t","/","c","s","v">>)>>, <<"scheme", Str(<<"I","M","T">>)>> >>)
    [] kind = "identifier" -> M(<< <<"value", Str(<<"1","0",".","5","5","5","5","/","e","x","a","m","p","l","e">>)>>, <<"type", Str(<<"D","O","I">>)>> >>)
    [] kind = "source" -> M(<< <<"value", Str(<<"F","i","e","l","d"," ","s","u","r","v","e","y">>)>> >>)
    [] kind = "language" -> M(<< <<"value", Str(<<"e","n">>)>>, <<"scheme", Str(<<"I","S","O"," ","6","3","9","-","1">>)>> >>)
    [] kind = "relation" -> M(<< <<"value", Str(<<"P","a","r","e","n","t"," ","s","e","t">>)>>, <<"type", Str(<<"i","s","P","a","r","t","O","f">>)>> >>)
    [] kind = "coverage" -> M(<< <<"value", Str(<<"E","a","r","t","h">>)>>, <<"coordinates", Str(<<"l","a","t",":"," ","4","0",".","7","1","2","8",","," ","l","o","n",":"," ","-","7","4",".","0","0","6","0">>)>> >>)
    [] kind = "rights" -> M(<< <<"value", Str(<<"C","C","-","B","Y">>)>>, <<"type", Str(<<"l","i","c","e","n","s","e">>)>> >>)
    [] kind = "funding" -> M(<< <<"agency", Str(<<"N","S","F">>)>>, <<"country", Str(<<"U","S">>)>> >>)
    [] kind = "quality" -> M(<< <<"peer_review", Bool(TRUE)>>, <<"review_type", Str(<<"o","p","e","n">>)>> >>)
    [] kind = "technical" -> M(<< <<"creation_software", Str(<<"v","i","m">>)>> >>)
    [] kind = "preservation" -> M(<< <<"checksum", Str(<<"m","d","5",":","0","a","F","3">>)>> >>)
    [] kind = "metadata_record" -> M(<< <<"created_date", Str(<<"2","0","2","4","-","0","1","-","0","1","T","0","0",":","0","0",":","0","0","Z">>)>>, <<"encoding", Str(<<"U","T","F","-","8">>)>> >>)

\* the mapping node with one more key, which no class declares
WithUnknownKey(node) ==
  Map(("unknown_field" :> Str(<<"x">>)) @@ node.m)

\* the places of a complete document that are one record each
Containers ==
  {"document", "dublin_core", "additional_metadata", "funding", "quality",
   "technical", "preservation", "metadata_record"}

KindSet ==
  {Kinds[k] : k \in DOMAIN Kinds}

\* where a complete document gets an unknown key: nowhere, in a container,
\* or in the first or second instance of an element kind
ExtraPlaces ==
  {<<"nowhere", 1>>} \cup (Containers \X {1}) \cup (KindSet \X {1, 2})

At(place, name, idx, node) ==
  IF place = <<name, idx>> THEN WithUnknownKey(node) ELSE node

\* a document with every element kind (two instances each) and both
\* side records, valid except for an unknown key at place
CompleteDocument(place) ==
  At(place, "document", 1, M(<<
    <<"dublin_core", At(place, "dublin_core", 1,
        Map([kind \in KindSet |->
               List(<<At(place, kind, 1, ValidInstance(kind)),
                      At(place, kind, 2, ValidInstance(kind))>>)]))>>,
    <<"additional_metadata", At(place, "additional_metadata", 1, M(<<
        <<"funding", List(<<At(place, "funding", 1, ValidInstance("funding"))>>)>>,
        <<"quality", At(place, "quality", 1, ValidInstance("quality"))>>,
        <<"technical", At(place, "technical", 1, ValidInstance("technical"))>>,
        <<"preservation", At(place, "preservation", 1, ValidInstance("preservation"))>> >>))>>,
    <<"metadata_record", At(place, "metadata_record", 1, ValidInstance("metadata_record"))>> >>))

TitleOptions ==
  {Absent,
   List(<<>>),
   List(<<ValidInstance("title")>>),
   List(<<M(<< <<"value", Str(<<>>)>> >>)>>)}

IdentifierOptions ==
  {Absent,
   List(<<>>),
   List(<<M(<< <<"value", Str(<<"l","o","c","a","l","-","1">>)>> >>)>>),
   List(<<M(<< <<"value", Str(<<"1","0",".","5","5","5","5","/","e","x","a","m","p","l","e">>)>>, <<"type", Str(<<"D","O","I">>)>> >>)>>),
   List(<<M(<< <<"value", Str(<<"n","o","t","-","a","-","d","o","i">>)>>, <<"type", Str(<<"D","O","I">>)>> >>)>>),
   List(<<M(<< <<"value", Str(<<"9","7","8","-","3","-","1","6","-","1","4","8","4","1","0","-","0">>)>>, <<"type", Str(<<"I","S","B","N">>)>> >>)>>),
   List(<<M(<< <<"value", Str(<<"1","2","3","4","5">>)>>, <<"type", Str(<<"I","S","B","N">>)>> >>)>>),
   List(<<M(<< <<"value", Str(<<"1","2","3","4","-","5","6","7","8">>)>>, <<"type", Str(<<"I","S","S","N">>)>> >>)>>),
   List(<<M(<< <<"value", Str(<<"n","o","t","-","a","-","d","o","i">>)>>, <<"type", Str(<<"H","a","n","d","l","e">>)>> >>)>>),
   List(<<M(<< <<"value", Str(<<"x">>)>>, <<"type", Str(<<"b","a","r","c","o","d","e">>)>> >>)>>)}

DateOptions ==
  {Absent,
   List(<<M(<< <<"value", Str(<<"2","0","2","4","-","1","3","-","4","0">>)>>, <<"scheme", Str(<<"W","3","C","D","T","F">>)>> >>)>>),
   List(<<M(<< <<"value", Str(<<"2","0","2","4","-","1","3","-","4","0">>)>>, <<"scheme", Str(<<"l","o","c","a","l">>)>> >>)>>),
   List(<<M(<< <<"value", Str(<<"y","e","s","t","e","r","d","a","y">>)>>, <<"scheme", Str(<<"W","3","C","D","T","F">>)>> >>)>>),
   List(<<M(<< <<"value", Str(<<"y","e","s","t","e","r","d","a","y">>)>> >>)>>),
   List(<<M(<< <<"value", Str(<<>>)>>, <<"scheme", Str(<<"W","3","C","D","T","F">>)>> >>)>>)}

LanguageOptions ==
  {Absent,
   List(<<M(<< <<"value", Str(<<"E","N">>)>>, <<"scheme", Str(<<"I","S","O"," ","6","3","9","-","1">>)>> >>)>>),
   List(<<M(<< <<"value", Str(<<"e","n","g">>)>>, <<"scheme", Str(<<"I","S","O"," ","6","3","9","-","1">>)>> >>)>>),
   List(<<M(<< <<"value", Str(<<"e","n">>)>>, <<"scheme", Str(<<"I","S","O"," ","6","3","9","-","2">>)>> >>)>>),
   List(<<M(<< <<"value", Str(<<"E","N","G">>)>>, <<"scheme", Str(<<"I","S","O"," ","6","3","9","-","3">>)>> >>)>>),
   List(<<M(<< <<"value", Str(<<"F","r">>)>> >>)>>),
   List(<<M(<< <<"value", Str(<<"e">>)>>, <<"scheme", Str(<<"I","S","O"," ","6","3","9","-","1">>)>> >>)>>)}

TypeOptions ==
  {List(<<M(<< <<"value", Str(<<"D","a","t","a","s","e","t">>)>>, <<"scheme", Str(<<"D","C","M","I"," ","T","y","p","e"," ","V","o","c","a","b","u","l","a","r","y">>)>> >>)>>),
   List(<<M(<< <<"value", Str(<<"B","a","n","a","n","a">>)>>, <<"scheme", Str(<<"D","C","M","I"," ","T","y","p","e"," ","V","o","c","a","b","u","l","a","r","y">>)>> >>)>>),
   List(<<M(<< <<"value", Str(<<"d","a","t","a","s","e","t">>)>>, <<"scheme", Str(<<"D","C","M","I"," ","T","y","p","e"," ","V","o","c","a","b","u","l","a","r","y">>)>> >>)>>),
   List(<<M(<< <<"value", Str(<<"B","a","n","a","n","a">>)>>, <<"scheme", Str(<<"l","o","c","a","l">>)>> >>)>>),
   List(<<M(<< <<"value", Str(<<"B","a","n","a","n","a">>)>> >>)>>),
   List(<<M(<< <<"value", Str(<<"T","e","x","t">>)>>, <<"scheme", Str(<<"D","e","w","e","y">>)>> >>)>>)}

\* values of the orcid field of a creator
OrcidOptions ==
  {Absent,
   Null,
   Str(<<"0","0","0","0","-","0","0","0","2","-","1","8","2","5","-","0","0","9","7">>),
   Str(<<"0","0","0","0","-","0","0","0","4","-","1","8","2","5","-","0","0","9","7">>),
   Str(<<"0","0","0","0","-","0","0","0","1","-","5","0","0","0","-","0","0","0","X">>),
   Str(<<"0","0","0","0","-","0","0","0","3","-","1","8","2","5","-","0","0","9","x">>),
   Str(<<"0","0","0","0","-","0","0","0","0","-","1","8","2","5","-","0","0","9","7">>),
   Str(<<"0","0","0","0","-","0","0","0","2","-","1","8","2","5","-","0","0","9","7","\n">>),
   Str(<<"0","0","0","0","-","0","0","0","2","-","1","8","2","5","-","0","0","9","7"," ">>),
   Str(<<" ","0","0","0","0","-","0","0","0","2","-","1","8","2","5","-","0","0","9","7">>),
   Str(<<"0","0","0","0","-","0","0","0","2","-","1","8","2","5","-","0","0","9","u0663">>),
   Str(<<"0","0","0","0","-","0","0","0","2","-","1","8","2","5","0","0","9","7">>),
   Str(<<"0","0","0","0","-","0","0","0","2","-","1","8","2","5","-","0","0","9","7","1">>),
   Str(<<"h","t","t","p","s",":","/","/","o","r","c","i","d",".","o","r","g","/","0","0","0","0","-","0","0","0","2","-","1","8","2","5","-","0","0","9","7">>),
   Str(<<>>)}

\* one creator with the given orcid
CreatorOptions ==
  {List(<<M(<< <<"name", Str(<<"A","d","a"," ","L","o","v","e","l","a","c","e">>)>>, <<"orcid", orcid>> >>)>>) :
     orcid \in OrcidOptions}

\* a document with a valid title and identifier and the given list of
\* instances of one more kind
DocumentWith(kind, list) ==
  M(<< <<"dublin_core", M(<< <<"title", List(<<ValidInstance("title")>>)>>,
                             <<"identifier", List(<<ValidInstance("identifier")>>)>>,
                             <<kind, list>> >>)>> >>)

\* the kinds a document need not have, in the order of the DublinCore fields
OptionalKinds ==
  SelectSeq(Kinds, LAMBDA kind : kind \notin {"title", "identifier"})

\* the most instances a kind has in a populated document
MaxInstances ==
  2

\* a document with one title, one identifier and n instances of each of the
\* first k optional kinds
PopulatedDocument(k, n) ==
  M(<< <<"dublin_core",
         Map([kind \in {"title", "identifier"} \cup {OptionalKinds[j] : j \in 1..k} |->
                IF kind \in {"title", "identifier"}
                THEN List(<<ValidInstance(kind)>>)
                ELSE List([j \in 1..n |-> ValidInstance(kind)])])>> >>)

\* a document with the given title, identifier, date and language lists
Document(title, identifier, date, language) ==
  M(<< <<"dublin_core", M(<< <<"title", title>>, <<"identifier", identifier>>,
                             <<"date", date>>, <<"language", language>> >>)>> >>)

\* the example YAML that the example command prints, as yaml.safe_load
\* reads it
example_yaml ==
  M(<<
    << "dublin_core", M(<<
      << "title", List(<<
        M(<<
          << "value", Str(<<"S","a","m","p","l","e"," ","R","e","s","e","a","r","c","h"," ","D","a","t","a","s","e","t",":"," ","C","l","i","m","a","t","e"," ","C","h","a","n","g","e"," ","I","m","p","a","c","t"," ","o","n"," ","C","o","a","s","t","a","l"," ","E","c","o","s","y","s","t","e","m","s">>) >>,
          << "type", Str(<<"m","a","i","n">>) >>,
          << "language", Str(<<"e","n">>) >> >>),
        M(<<
          << "value", Str(<<"I","m","p","a","c","t","o"," ","d","e","l"," ","C","a","m","b","i","o"," ","C","l","i","m","u00e1","t","i","c","o"," ","e","n"," ","E","c","o","s","i","s","t","e","m","a","s"," ","C","o","s","t","e","r","o","s",":"," ","C","o","n","j","u","n","t","o"," ","d","e"," ","D","a","t","o","s"," ","d","e"," ","I","n","v","e","s","t","i","g","a","c","i","u00f3","n">>) >>,
          << "type", Str(<<"t","r","a","n","s","l","a","t","e","d">>) >>,
          << "language", Str(<<"e","s">>) >> >>) >>) >>,
      << "creator", List(<<
        M(<<
          << "name", Str(<<"D","r","."," ","J","a","n","e"," ","S","m","i","t","h">>) >>,
          << "type", Str(<<"p","e","r","s","o","n","a","l">>) >>,
          << "orcid", Str(<<"0","0","0","0","-","0","0","0","2","-","1","8","2","5","-","0","0","9","7">>) >>,
          << "affiliation", Str(<<"U","n","i","v","e","r","s","i","t","y"," ","o","f"," ","M","a","r","i","n","e"," ","S","c","i","e","n","c","e","s">>) >>,
          << "role", Str(<<"p","r","i","n","c","i","p","a","l"," ","i","n","v","e","s","t","i","g","a","t","o","r">>) >> >>),
        M(<<
          << "name", Str(<<"D","r","."," ","R","o","b","e","r","t"," ","J","o","h","n","s","o","n">>) >>,
          << "type", Str(<<"p","e","r","s","o","n","a","l">>) >>,
          << "affiliation", Str(<<"C","o","a","s","t","a","l"," ","R","e","s","e","a","r","c","h"," ","I","n","s","t","i","t","u","t","e">>) >>,
          << "role", Str(<<"c","o","-","i","n","v","e","s","t","i","g","a","t","o","r">>) >> >>) >>) >>,
      << "subject", List(<<
        M(<<
          << "value", Str(<<"C","l","i","m","a","t","e"," ","c","h","a","n","g","e">>) >>,
          << "scheme", Str(<<"L","C","S","H">>) >> >>),
        M(<<
          << "value", Str(<<"C","o","a","s","t","a","l"," ","e","c","o","l","o","g","y">>) >>,
          << "scheme", Str(<<"L","C","S","H">>) >> >>),
        M(<<
          << "value", Str(<<"M","a","r","i","n","e"," ","b","i","o","l","o","g","y">>) >>,
          << "scheme", Str(<<"L","C","S","H">>) >> >>),
        M(<<
          << "value", Str(<<"E","n","v","i","r","o","n","m","e","n","t","a","l"," ","m","o","n","i","t","o","r","i","n","g">>) >>,
          << "scheme", Str(<<"k","e","y","w","o","r","d">>) >> >>) >>) >>,
      << "description", List(<<
        M(<<
          << "value", Str(<<"T","h","i","s"," ","d","a","t","a","s","e","t"," ","c","o","n","t","a","i","n","s"," ","c","o","m","p","r","e","h","e","n","s","i","v","e"," ","m","e","a","s","u","r","e","m","e","n","t","s"," ","o","f"," ","c","o","a","s","t","a","l"," ","e","c","o","s","y","s","t","e","m"," ","p","a","r","a","m","e","t","e","r","s"," ","c","o","l","l","e","c","t","e","d"," ","o","v","e","r"," ","a"," ","5","-","y","e","a","r"," ","p","e","r","i","o","d"," ","t","o"," ","a","s","s","e","s","s"," ","c","l","i","m","a","t","e"," ","c","h","a","n","g","e"," ","i","m","p","a","c","t","s","."," ","I","n","c","l","u","d","e","s"," ","w","a","t","e","r"," ","t","e","m","p","e","r","a","t","u","r","e",","," ","s","a","l","i","n","i","t","y",","," ","p","H"," ","l","e","v","e","l","s",","," ","s","p","e","c","i","e","s"," ","a","b","u","n","d","a","n","c","e",","," ","a","n","d"," ","b","i","o","d","i","v","e","r","s","i","t","y"," ","i","n","d","i","c","e","s"," ","f","r","o","m"," ","1","5"," ","m","o","n","i","t","o","r","i","n","g"," ","s","t","a","t","i","o","n","s"," ","a","l","o","n","g"," ","t","h","e"," ","P","a","c","i","f","i","c"," ","c","o","a","s","t",".">>) >>,
          << "type", Str(<<"a","b","s","t","r","a","c","t">>) >>,
          << "language", Str(<<"e","n">>) >> >>) >>) >>,
      << "publisher", List(<<
        M(<<
          << "name", Str(<<"U","n","i","v","e","r","s","i","t","y"," ","o","f"," ","M","a","r","i","n","e"," ","S","c","i","e","n","c","e","s"," ","D","a","t","a"," ","R","e","p","o","s","i","t","o","r","y">>) >>,
          << "type", Str(<<"u","n","i","v","e","r","s","i","t","y">>) >>,
          << "location", Str(<<"C","a","l","i","f","o","r","n","i","a",","," ","U","S","A">>) >>,
          << "website", Str(<<"h","t","t","p","s",":","/","/","d","a","t","a",".","u","m","a","r","i","n","e",".","e","d","u">>) >> >>) >>) >>,
      << "contributor", List(<<
        M(<<
          << "name", Str(<<"M","a","r","i","n","e"," ","D","a","t","a"," ","C","o","n","s","o","r","t","i","u","m">>) >>,
          << "type", Str(<<"c","o","r","p","o","r","a","t","e">>) >>,
          << "role", Str(<<"d","a","t","a"," ","c","o","l","l","e","c","t","o","r">>) >> >>),
        M(<<
          << "name", Str(<<"D","r","."," ","M","a","r","i","a"," ","G","a","r","c","i","a">>) >>,
          << "type", Str(<<"p","e","r","s","o","n","a","l">>) >>,
          << "role", Str(<<"d","a","t","a"," ","a","n","a","l","y","s","t">>) >> >>) >>) >>,
      << "date", List(<<
        M(<<
          << "value", Str(<<"2","0","2","4","-","0","1","-","1","5">>) >>,
          << "type", Str(<<"c","r","e","a","t","e","d">>) >>,
          << "scheme", Str(<<"W","3","C","D","T","F">>) >> >>),
        M(<<
          << "value", Str(<<"2","0","2","4","-","0","2","-","0","1">>) >>,
          << "type", Str(<<"a","v","a","i","l","a","b","l","e">>) >>,
          << "scheme", Str(<<"W","3","C","D","T","F">>) >> >>),
        M(<<
          << "value", Str(<<"2","0","1","9","/","2","0","2","3">>) >>,
          << "type", Str(<<"t","e","m","p","o","r","a","l","_","c","o","v","e","r","a","g","e">>) >>,
          << "scheme", Str(<<"W","3","C","D","T","F">>) >> >>) >>) >>,
      << "type", List(<<
        M(<<
          << "value", Str(<<"D","a","t","a","s","e","t">>) >>,
          << "scheme", Str(<<"D","C","M","I"," ","T","y","p","e"," ","V","o","c","a","b","u","l","a","r","y">>) >> >>) >>) >>,
      << "format", List(<<
        M(<<
          << "value", Str(<<"t","e","x","t","/","c","s","v">>) >>,
          << "type", Str(<<"m","e","d","i","a","_","t","y","p","e">>) >>,
          << "scheme", Str(<<"I","M","T">>) >> >>),
        M(<<
          << "value", Str(<<"2",".","5"," ","G","B">>) >>,
          << "type", Str(<<"f","i","l","e","_","s","i","z","e">>) >> >>) >>) >>,
      << "identifier", List(<<
        M(<<
          << "value", Str(<<"h","t","t","p","s",":","/","/","d","o","i",".","o","r","g","/","1","0",".","5","5","5","5","/","e","x","a","m","p","l","e",".","d","a","t","a","s","e","t",".","2","0","2","4">>) >>,
          << "type", Str(<<"D","O","I">>) >>,
          << "scheme", Str(<<"U","R","I">>) >> >>),
        M(<<
          << "value", Str(<<"U","M","D","S","-","2","0","2","4","-","0","0","1">>) >>,
          << "type", Str(<<"l","o","c","a","l">>) >> >>) >>) >>,
      << "language", List(<<
        M(<<
          << "value", Str(<<"e","n">>) >>,
          << "scheme", Str(<<"I","S","O"," ","6","3","9","-","1">>) >>,
          << "name", Str(<<"E","n","g","l","i","s","h">>) >> >>) >>) >>,
      << "coverage", List(<<
        M(<<
          << "value", Str(<<"P","a","c","i","f","i","c"," ","C","o","a","s","t",","," ","C","a","l","i","f","o","r","n","i","a",","," ","U","S","A">>) >>,
          << "type", Str(<<"s","p","a","t","i","a","l">>) >>,
          << "scheme", Str(<<"T","G","N">>) >>,
          << "coordinates", Str(<<"l","a","t",":"," ","3","2",".","7","1","5","7","-","3","7",".","8","0","4","4",","," ","l","o","n",":"," ","-","1","1","7",".","1","6","1","1","-","-","1","2","2",".","4","1","9","4">>) >> >>),
        M(<<
          << "value", Str(<<"2","0","1","9","-","0","1","-","0","1","/","2","0","2","3","-","1","2","-","3","1">>) >>,
          << "type", Str(<<"t","e","m","p","o","r","a","l">>) >>,
          << "scheme", Str(<<"W","3","C","D","T","F">>) >> >>) >>) >>,
      << "rights", List(<<
        M(<<
          << "value", Str(<<"C","r","e","a","t","i","v","e"," ","C","o","m","m","o","n","s"," ","A","t","t","r","i","b","u","t","i","o","n"," ","4",".","0"," ","I","n","t","e","r","n","a","t","i","o","n","a","l"," ","L","i","c","e","n","s","e">>) >>,
          << "type", Str(<<"l","i","c","e","n","s","e">>) >>,
          << "uri", Str(<<"h","t","t","p","s",":","/","/","c","r","e","a","t","i","v","e","c","o","m","m","o","n","s",".","o","r","g","/","l","i","c","e","n","s","e","s","/","b","y","/","4",".","0","/">>) >> >>) >>) >> >>) >>,
    << "additional_metadata", M(<<
      << "funding", List(<<
        M(<<
          << "agency", Str(<<"N","a","t","i","o","n","a","l"," ","S","c","i","e","n","c","e"," ","F","o","u","n","d","a","t","i","o","n">>) >>,
          << "grant_number", Str(<<"O","C","E","-","1","2","3","4","5","6","7">>) >>,
          << "country", Str(<<"U","S">>) >> >>),
        M(<<
          << "agency", Str(<<"C","a","l","i","f","o","r","n","i","a"," ","O","c","e","a","n"," ","P","r","o","t","e","c","t","i","o","n"," ","C","o","u","n","c","i","l">>) >>,
          << "grant_number", Str(<<"O","P","C","-","E","N","V","-","2","0","1","9","-","0","5">>) >>,
          << "country", Str(<<"U","S">>) >> >>) >>) >>,
      << "quality", M(<<
        << "peer_review", Bool(TRUE) >>,
        << "review_type", Str(<<"d","o","u","b","l","e","-","b","l","i","n","d">>) >> >>) >>,
      << "technical", M(<<
        << "creation_software", Str(<<"R"," ","4",".","3",".","0",","," ","P","y","t","h","o","n"," ","3",".","9">>) >>,
        << "data_analysis_software", Str(<<"R"," ","p","a","c","k","a","g","e","s",":"," ","t","i","d","y","v","e","r","s","e",","," ","v","e","g","a","n",","," ","g","g","p","l","o","t","2">>) >> >>) >> >>) >>,
    << "metadata_record", M(<<
      << "created_date", Str(<<"2","0","2","4","-","0","1","-","1","5","T","1","0",":","3","0",":","0","0","Z">>) >>,
      << "created_by", Str(<<"D","r","."," ","J","a","n","e"," ","S","m","i","t","h">>) >>,
      << "record_identifier", Str(<<"U","M","D","S","-","M","E","T","A","-","2","0","2","4","-","0","0","1">>) >>,
      << "schema_version", Str(<<"D","u","b","l","i","n"," ","C","o","r","e"," ","1",".","1"," ","E","x","t","e","n","d","e","d">>) >>,
      << "encoding", Str(<<"U","T","F","-","8">>) >> >>) >> >>)

\* trees that are no document at all, or a broken one
OddTrees ==
  {Null,
   Str(<<"j","u","s","t"," ","t","e","x","t">>),
   List(<<Str(<<"a">>), Str(<<"b">>)>>),
   M(<< <<"metadata_record", ValidInstance("metadata_record")>> >>),
   M(<< <<"dublin_core", Null>> >>),
   M(<< <<"dublin_core", Str(<<"t","e","x","t">>)>> >>),
   M(<< <<"dublin_core", List(<<>>)>> >>),
   M(<< <<"dublin_core", M(<< <<"title", Str(<<"A"," ","T","i","t","l","e">>)>>,
                              <<"identifier", List(<<ValidInstance("identifier")>>)>> >>)>> >>),
   M(<< <<"dublin_core", M(<< <<"title", List(<<Null>>)>>,
                              <<"identifier", List(<<ValidInstance("identifier")>>)>> >>)>> >>),
   M(<< <<"dublin_core", M(<< <<"title", List(<<Str(<<"A"," ","T","i","t","l","e">>)>>)>>,
                              <<"identifier", List(<<ValidInstance("identifier")>>)>> >>)>> >>),
   M(<< <<"dublin_core", M(<< <<"title", Null>>,
                              <<"identifier", List(<<ValidInstance("identifier")>>)>> >>)>> >>)}

Trees ==
  OddTrees
  \cup {example_yaml}
  \cup {CompleteDocument(place) : place \in ExtraPlaces}
  \cup {Document(t, i, d, l) : t \in TitleOptions, i \in IdentifierOptions,
                               d \in DateOptions, l \in LanguageOptions}
  \cup {DocumentWith("type", ty) : ty \in TypeOptions}
  \cup {DocumentWith("creator", creator) : creator \in CreatorOptions}
  \cup {PopulatedDocument(k, n) : k \in 0..Len(OptionalKinds), n \in 0..MaxInstances}

Files ==
  {File("missing", FALSE, Null, 0),
   File("unreadable", TRUE, CompleteDocument(<<"nowhere", 1>>), SomeSize),
   File("directory", FALSE, Null, SomeSize),
   File("binary", FALSE, Null, SomeSize),
   File("text", FALSE, Null, SomeSize)}
  \cup {TextFile(tree) : tree \in Trees}

Init ==
  /\ input \in Files
  /\ fs = input
  /\ pc = "start"
  /\ data = Null
  /\ document = Null
  /\ report = NoReport
  /\ result = NoResult
  /\ ran = <<>>
  /\ NoBatch
  /\ NoDoi

Next ==
  \/ Parse
  \/ Validate
  \/ Report
  \/ Return
  \/ RemoveFile

Spec ==
  Init /\ [][Next]_vars


----------------------------------------------------------------------------
(* The directories the batch command is run on *)

\* the most files the pattern matches
MaxFiles ==
  3

\* what a matched file is: a valid document, a document without any element,
\* a malformed text, a text that is no mapping, a file that cannot be read
BatchContents ==
  {TextFile(PopulatedDocument(0, 0)),
   TextFile(Document(Absent, Absent, Absent, Absent)),
   File("text", FALSE, Null, SomeSize),
   TextFile(Str(<<"j","u","s","t"," ","t","e","x","t">>)),
   File("unreadable", TRUE, PopulatedDocument(0, 0), SomeSize)}

\* the file with the contents, at the k-th path
Named(contents, k) ==
  [contents EXCEPT !.path = ToString(k) \o ".yaml"]

Directories ==
  {[kind |-> "missing", files |-> <<>>], [kind |-> "file", files |-> <<>>]}
  \cup UNION {{[kind |-> "dir", files |-> [k \in 1..n |-> Named(contents[k], k)]] :
                 contents \in [1..n -> BatchContents]} : n \in 0..MaxFiles}

\* no call has been made
NoCall ==
  /\ input = File("missing", FALSE, Null, 0)
  /\ fs = input
  /\ pc = "none"
  /\ data = Null
  /\ document = Null
  /\ report = NoReport
  /\ result = NoResult
  /\ ran = <<>>

BatchInit ==
  /\ directory \in Directories
  /\ continue_on_error \in BOOLEAN
  /\ output_file \in BOOLEAN
  /\ at = "start"
  /\ files = <<>>
  /\ file_index = 0
  /\ results = <<>>
  /\ failed_count = 0
  /\ passed_count = 0
  /\ batch_result = NoBatchResult
  /\ written = FALSE
  /\ exit_code = 0
  /\ NoCall
  /\ NoDoi

\* the files are not changed while the command runs
BatchNext ==
  \/ Find
  \/ Call
  \/ Parse
  \/ Validate
  \/ Report
  \/ Return
  \/ Collect
  \/ Summarize
  \/ Exit

BatchSpec ==
  BatchInit /\ [][BatchNext]_vars

----------------------------------------------------------------------------
(* The strings validate_doi is called on *)

\* a string in five parts: scheme, dx., host, registrant and suffix
DoiParts ==
  [scheme : {<<>>, <<"h","t","t","p","s",":","/","/">>, <<"h","t","t","p",":","/","/">>, <<"H","T","T","P","S",":","/","/">>, <<"f","t","p",":","/","/">>},
   dx : {<<>>, <<"d","x",".">>, <<"D","X",".">>},
   host : {<<>>, <<"d","o","i",".","o","r","g","/">>, <<"D","O","I",".","O","R","G","/">>, <<"d","o","i",".","o","r","g">>},
   registrant : {<<"1","0",".","5","5","5","5">>, <<"1","0",".","1","2","3","4","5">>, <<"1","0",".","5","5","5">>, <<"1","1",".","5","5","5","5">>},
   suffix : {<<"/","e","x","a","m","p","l","e">>, <<"/","E","x","a","m","p","l","e",".","D","a","t","a","s","e","t","-","2","0","2","4">>, <<"/">>, <<"/","a"," ","b">>, <<>>}]

\* the string with the given parts
Joined(parts) ==
  parts.scheme \o parts.dx \o parts.host \o parts.registrant \o parts.suffix

DoiStrings ==
  {Joined(parts) : parts \in DoiParts} \cup {<<"n","o","t","-","a","-","d","o","i">>}

DoiInit ==
  /\ doi_string \in DoiStrings
  /\ doi_returned = NotReturned
  /\ NoCall
  /\ NoBatch

DoiNext ==
  ValidateDoi

DoiSpec ==
  DoiInit /\ [][DoiNext]_vars
----------------------------------------------------------------------------
(* Properties *)

Done ==
  pc = "done"

\* the call has returned a FAILED report
Failed ==
  Done /\ ~ result.raised /\ result.v.validation_status = "FAILED"

\* the call has returned a PASSED report
Passed ==
  Done /\ ~ result.raised /\ result.v.validation_status = "PASSED"

\* the call ended in load_yaml_file
ParseFailed ==
  Done /\ Len(ran) = 1 /\ ~ ran[1].ok

\* the call ended in validate_document
ValidateFailed ==
  Done /\ Len(ran) = 2 /\ ~ ran[2].ok

\* the call ended in validate_document with the ValidationError of a mapping
SchemaFailed ==
  ValidateFailed /\ data.t = "map"

\* the violations a FAILED report describes
ReportedErrors ==
  result.v.error.errors

\* the tree is a mapping whose dublin_core is a mapping
IsDocument(tree) ==
  /\ tree.t = "map"
  /\ "dublin_core" \in DOMAIN tree.m
  /\ tree.m["dublin_core"].t = "map"

\* the list of element kind is absent or empty
Lacks(tree, kind) ==
  \/ kind \notin DOMAIN tree.m["dublin_core"].m
  \/ tree.m["dublin_core"].m[kind] = List(<<>>)

\* the tree with a valid title and identifier where it lacks them
Repaired(tree) ==
  LET dc == tree.m["dublin_core"].m
      fix == [kind \in {k \in {"title", "identifier"} : Lacks(tree, k)} |->
                List(<<ValidInstance(kind)>>)]
  IN  Map(("dublin_core" :> Map(fix @@ dc)) @@ tree.m)

\* a readable document without title or without identifier that violates
\* no other rule
MissingRequiredOtherwiseValid(f) ==
  /\ f.kind = "text" /\ f.wellformed
  /\ IsDocument(f.tree)
  /\ Lacks(f.tree, "title") \/ Lacks(f.tree, "identifier")
  /\ ~ validate_document(Repaired(f.tree)).raised

\* the document-level error for the first required kind the tree lacks
RequiredError(tree) ==
  Err(<<"dublin_core", "__root__">>,
      IF Lacks(tree, "title") THEN "At least one title element is required"
      ELSE "At least one identifier element is required")

\* C1: validate_dublin_core_yaml never raises: whatever the file (missing,
\* unreadable, malformed, empty, no mapping, violating the schema, valid,
\* removed before its size is read) the call returns a report whose
\* validation_status is PASSED or FAILED.
C1_NeverRaises ==
  Done => /\ ~ result.raised
          /\ result.v.validation_status \in {"PASSED", "FAILED"}

\* the YAML is no mapping: the TypeError of the constructor call, which no
\* inner handler catches, has become a report
C1_Witness ==
  Failed /\ result.v.error_type = "TypeError"

\* C2 as stated: a document without title or without identifier, otherwise
\* valid, yields a Failure report whose error_type is "SchemaError".
C2_Original ==
  (Done /\ MissingRequiredOtherwiseValid(input))
    => (Failed /\ result.v.error_type = "SchemaError")

\* C2 amended: a document without title or without identifier, otherwise
\* valid, yields a Failure report whose error_type is "ValueError"; when the
\* document was read, the report describes the document-level error for the
\* lacking kind and nothing else.
C2_MissingRequired ==
  (Done /\ MissingRequiredOtherwiseValid(input))
    => /\ Failed
       /\ result.v.error_type = "ValueError"
       /\ Len(ran) = 2 => ReportedErrors = <<RequiredError(input.tree)>>

C2_Witness ==
  /\ ValidateFailed
  /\ MissingRequiredOtherwiseValid(input)
  /\ ~ Lacks(input.tree, "title")
  /\ "date" \in DOMAIN input.tree.m["dublin_core"].m

\* C3 as stated: a failure of the Parse step is reported with error_type
\* "IOError" for a missing or unreadable file and "SyntaxError" for a
\* malformed serialization, and the pipeline aborts with a Failure report.
C3_Original ==
  ParseFailed
    => /\ Failed
       /\ fs.kind \in {"missing", "unreadable"} => result.v.error_type = "IOError"
       /\ fs.kind = "text" => result.v.error_type = "SyntaxError"

\* C3 amended: a failure of the Parse step is reported with error_type
\* "ValueError" for a missing file and for a malformed serialization, and
\* with the name of the class of the error that open or read raised for an
\* unreadable file (PermissionError, IsADirectoryError, UnicodeDecodeError);
\* in every case the pipeline aborts with a Failure report.
C3_ParseFailure ==
  ParseFailed
    => /\ Failed
       /\ result.v.error_type =
            CASE fs.kind = "missing" -> "ValueError"
              [] fs.kind = "text" -> "ValueError"
              [] fs.kind = "unreadable" -> "PermissionError"
              [] fs.kind = "directory" -> "IsADirectoryError"
              [] fs.kind = "binary" -> "UnicodeDecodeError"
       /\ result.v.error.msg =
            CASE fs.kind = "missing" -> "File not found"
              [] fs.kind = "text" -> "Invalid YAML format"
              [] OTHER -> result.v.error.msg
       /\ document = Null /\ report = NoReport

C3_Witness ==
  ParseFailed /\ fs.kind = "missing" /\ input.kind = "text"

StepOrder ==
  <<"Parse", "Validate", "Report">>

\* C4: within one call the steps run in the order Parse, Validate, Report;
\* a step runs only after every step before it succeeded, the report is
\* built only after Validate succeeded, and a failing step ends the call
\* with a Failure report.
C4_StepOrder ==
  /\ Len(ran) <= Len(StepOrder)
  /\ \A i \in DOMAIN ran : ran[i].step = StepOrder[i]
  /\ \A i \in DOMAIN ran : i < Len(ran) => ran[i].ok
  /\ report # NoReport => (Len(ran) = 3 /\ ran[2].ok)
  /\ (ran # <<>> /\ ~ ran[Len(ran)].ok) => Failed

C4_Witness ==
  ValidateFailed /\ report = NoReport

\* an error of an element instance: below dublin_core, a kind and an index
ElementError(e) ==
  Len(e.loc) >= 3 /\ e.loc[1] = "dublin_core" /\ e.loc[Len(e.loc)] # "__root__"

\* the error of the document-level check
DocumentLevelError(e) ==
  e.loc = <<"dublin_core", "__root__">>

\* C5: the document-level check runs only when every element instance has
\* validated: when an instance violates a field rule, the report describes
\* that element-level error and not the "at least one title/identifier
\* element is required" error.
C5_ElementErrorsFirst ==
  ValidateFailed
    => ((\E i \in DOMAIN ReportedErrors : ElementError(ReportedErrors[i]))
          => ~ \E i \in DOMAIN ReportedErrors : DocumentLevelError(ReportedErrors[i]))

\* C6 as stated: a Failure report describes exactly one violation, never
\* several.
C6_Original ==
  SchemaFailed => Len(ReportedErrors) = 1

\* whether loc starts with prefix
StartsWith(loc, prefix) ==
  Len(loc) >= Len(prefix) /\ SubSeq(loc, 1, Len(prefix)) = prefix

\* the field of DublinCore for an element kind
KindField(kind) ==
  DublinCore[CHOOSE k \in DOMAIN DublinCore : DublinCore[k].name = kind]

\* C6 amended: the pipeline stops at the first failing step and a Failure
\* report carries one error string; within the Validate step only the first
\* violated rule of a field is reported (no two violations share a
\* location), but every field that violates a rule is reported: the report
\* of a document with violations in several fields describes each of them.
C6_OnePerField ==
  /\ (ParseFailed \/ (ValidateFailed /\ ~ SchemaFailed)) => ReportedErrors = <<>>
  /\ SchemaFailed =>
       /\ ReportedErrors # <<>>
       /\ \A i, j \in DOMAIN ReportedErrors :
            ReportedErrors[i].loc = ReportedErrors[j].loc => i = j
       /\ IsDocument(data) =>
            \A kind \in DOMAIN data.m["dublin_core"].m \cap KindSet :
              ValidateField("DublinCore", KindField(kind),
                            data.m["dublin_core"].m[kind], EmptyMap).errors # <<>>
                => \E i \in DOMAIN ReportedErrors :
                     StartsWith(ReportedErrors[i].loc, <<"dublin_core", kind>>)

\* a report that describes violations in three fields and the document-level
\* error
C6_Witness ==
  /\ SchemaFailed
  /\ Len(ReportedErrors) >= 4
  /\ \E i \in DOMAIN ReportedErrors : StartsWith(ReportedErrors[i].loc, <<"dublin_core", "title">>)
  /\ \E i \in DOMAIN ReportedErrors : StartsWith(ReportedErrors[i].loc, <<"dublin_core", "date">>)
  /\ \E i \in DOMAIN ReportedErrors : StartsWith(ReportedErrors[i].loc, <<"dublin_core", "language">>)

RECURSIVE HasUnknownKey(_, _)
\* the value, read as an instance of class cls, or a record nested in it,
\* has a key that its class does not declare
HasUnknownKey(cls, node) ==
  /\ node.t = "map"
  /\ \/ \E key \in DOMAIN node.m : key \notin FieldNames(cls)
     \/ \E k \in DOMAIN Fields(cls) :
          LET f == Fields(cls)[k] IN
          /\ f.name \in DOMAIN node.m
          /\ \/ f.ty = "model" /\ HasUnknownKey(f.cls, node.m[f.name])
             \/ /\ f.ty = "list"
                /\ node.m[f.name].t = "list"
                /\ \E i \in DOMAIN node.m[f.name].items :
                     HasUnknownKey(f.cls, node.m[f.name].items[i])

\* C7: closed schema: a document in which an element instance or a container
\* record (document, dublin_core, additional_metadata and its sub-records,
\* metadata_record) has a key outside its class's fields is never reported
\* PASSED; its validation fails with "extra fields not permitted".
C7_ClosedSchema ==
  (Done /\ input.kind = "text" /\ input.wellformed
        /\ HasUnknownKey("DublinCoreDocument", input.tree))
    => /\ Failed
       /\ Len(ran) = 2 =>
            \E i \in DOMAIN ReportedErrors :
              ReportedErrors[i].msg = "extra fields not permitted"

\* the unknown key of the second rights instance is the only violation
C7_Witness ==
  /\ ValidateFailed
  /\ ReportedErrors = <<Err(<<"dublin_core", "rights", "1", "unknown_field">>,
                            "extra fields not permitted")>>

\* the validated or raw document has an instance of the kind with the
\* given value and the given value of another field
HasInstance(tree, kind, value, other, otherValue) ==
  /\ IsDocument(tree)
  /\ kind \in DOMAIN tree.m["dublin_core"].m
  /\ tree.m["dublin_core"].m[kind].t = "list"
  /\ \E i \in DOMAIN tree.m["dublin_core"].m[kind].items :
       LET inst == tree.m["dublin_core"].m[kind].items[i] IN
       /\ inst.t = "map"
       /\ Get(inst.m, "value") = Str(value)
       /\ Get(inst.m, other) = Str(otherValue)

\* C8: the date instance {value: "2024-13-40", scheme: "W3CDTF"} fails
\* validation (no document that holds it is validated), while the same value
\* with scheme "local" passes the element-level check.
C8_DateCrossField ==
  /\ ~ (pc = "validated" /\ HasInstance(data, "date", <<"2","0","2","4","-","1","3","-","4","0">>, "scheme", W3CDTF))
  /\ ModelValidate("DateElement",
                   M(<< <<"value", Str(<<"2","0","2","4","-","1","3","-","4","0">>)>>, <<"scheme", Str(<<"l","o","c","a","l">>)>> >>)).errors = <<>>

\* the instances of an element kind in the validated document
Instances(doc, kind) ==
  LET l == doc.m["dublin_core"].m[kind]
  IN  IF l = Null THEN {} ELSE {l.items[i].m : i \in DOMAIN l.items}

\* C9: in a validated document the value of every identifier instance whose
\* type is DOI, ISBN or ISSN satisfies validate_doi, validate_isbn or
\* validate_issn; {value: "not-a-doi", type: "DOI"} is rejected.
C9_IdentifierDispatch ==
  pc = "validated" =>
    \A inst \in Instances(document, "identifier") :
      /\ inst["type"] = Str(DOI) => validate_doi(inst["value"].s)
      /\ inst["type"] = Str(ISBN) => validate_isbn(inst["value"].s)
      /\ inst["type"] = Str(ISSN) => validate_issn(inst["value"].s)

\* C10: in a validated document every language instance whose scheme is
\* "ISO 639-1" has a value of 2 characters and every one whose scheme is
\* "ISO 639-2" or "ISO 639-3" a value of 3 characters, and the stored value
\* is lower-cased.
C10_LanguageRule ==
  pc = "validated" =>
    \A inst \in Instances(document, "language") :
      /\ inst["scheme"] = Str(ISO_639_1) => Len(inst["value"].s) = 2
      /\ inst["scheme"] \in {Str(ISO_639_2), Str(ISO_639_3)} => Len(inst["value"].s) = 3
      /\ inst["value"].s = LowerStr(inst["value"].s)


\* C11: in a validated document the value of every type instance whose
\* scheme is "DCMI Type Vocabulary" is one of the 12 DCMI type tokens.
C11_TypeRule ==
  pc = "validated" =>
    \A inst \in Instances(document, "type") :
      inst["scheme"] = Str(DCMI_Type_Vocabulary) => inst["value"].s \in DCMITypeVocabulary

\* the number of instances of the kind in the tree of a document
InstanceCount(tree, kind) ==
  IF kind \in DOMAIN tree.m["dublin_core"].m /\ tree.m["dublin_core"].m[kind].t = "list"
  THEN Len(tree.m["dublin_core"].m[kind].items)
  ELSE 0

\* the counts of a Success report: element_counts holds the number of
\* instances of each kind in the file, populated_elements is the number of
\* kinds with at least one instance, total_elements the sum of the counts,
\* 0 <= populated_elements <= 15 and populated_elements <= total_elements
CountsAgree(r) ==
  /\ \A kind \in KindSet : r.element_counts[kind] = InstanceCount(input.tree, kind)
  /\ r.populated_elements = Cardinality({kind \in KindSet : r.element_counts[kind] > 0})
  /\ r.total_elements = SumCounts(r.element_counts, Len(Kinds))
  /\ 0 <= r.populated_elements /\ r.populated_elements <= 15
  /\ r.populated_elements <= r.total_elements

\* C12 as stated: in every Success report the counts agree,
\* completeness_percentage is the float (populated_elements / 15) * 100
\* and, equivalently, completeness_percentage * 15 == populated_elements * 100.
C12_Original ==
  Passed =>
    /\ CountsAgree(result.v)
    /\ result.v.completeness_percentage =
         FloatMul(FloatDiv(result.v.populated_elements, 15), 100)
    /\ FloatMul(result.v.completeness_percentage, 15) =
         IntToFloat(result.v.populated_elements * 100)

\* C12 amended: in every Success report the counts agree and
\* completeness_percentage is the float (populated_elements / 15) * 100;
\* completeness_percentage * 15 == populated_elements * 100 holds except
\* for populated_elements 5 and 10, where the float is rounded below the
\* quotient and the product is not the integer.
C12_Completeness ==
  Passed =>
    /\ CountsAgree(result.v)
    /\ result.v.completeness_percentage =
         FloatMul(FloatDiv(result.v.populated_elements, 15), 100)
    /\ (FloatMul(result.v.completeness_percentage, 15) =
          IntToFloat(result.v.populated_elements * 100))
         <=> result.v.populated_elements \notin {5, 10}

\* a Success report with 5 populated kinds of two instances each besides
\* title and identifier: the percentage is 33.33333333333333
C12_Witness ==
  /\ Passed
  /\ result.v.populated_elements = 5
  /\ result.v.total_elements = 8
  /\ FloatMul(result.v.completeness_percentage, 15) # IntToFloat(500)

\* the file is a readable document none of whose 15 kinds is present
AllKindsAbsent(f) ==
  /\ f.kind = "text" /\ f.wellformed
  /\ IsDocument(f.tree)
  /\ DOMAIN f.tree.m["dublin_core"].m \cap KindSet = {}

\* a DublinCoreDocument object all of whose fields are None, which is what
\* the counting is applied to if the required elements are not checked
UnpopulatedDocument ==
  Map([name \in {"dublin_core", "additional_metadata", "metadata_record"} |->
         IF name = "dublin_core" THEN Map([kind \in KindSet |-> Null]) ELSE Null])

\* the report has a count for each of the 15 kinds and no other, each a
\* non-negative integer
FifteenCounts(r) ==
  /\ DOMAIN r.element_counts = KindSet
  /\ Cardinality(DOMAIN r.element_counts) = 15
  /\ \A kind \in KindSet : r.element_counts[kind] \in Nat

\* every count is 0, populated_elements is 0 and completeness_percentage 0.0
AllZero(r) ==
  /\ \A kind \in KindSet : r.element_counts[kind] = 0
  /\ r.populated_elements = 0
  /\ r.completeness_percentage = IntToFloat(0)

\* C13 as stated: element_counts in a report has exactly the 15 kind names
\* as keys with non-negative integer values, and a document in which all 15
\* kinds are absent gets a report with every count 0, populated_elements 0
\* and completeness_percentage 0.0.
C13_Original ==
  /\ Passed => FifteenCounts(result.v)
  /\ (Done /\ Len(ran) >= 2 /\ AllKindsAbsent(input))
       => (Passed /\ AllZero(result.v))

\* C13 amended: element_counts in a Success report has exactly the 15 kind
\* names as keys with non-negative integer values; create_validation_report
\* applied to a document object without any element gives every count 0,
\* populated_elements 0 and completeness_percentage 0.0, but no call
\* reaches it with such a document: a file in which all 15 kinds are absent
\* gets a Failure report (no element_counts) for the missing title.
C13_ElementCounts ==
  /\ Passed => FifteenCounts(result.v)
  /\ FifteenCounts(create_validation_report(UnpopulatedDocument))
  /\ AllZero(create_validation_report(UnpopulatedDocument))
  /\ (Done /\ Len(ran) >= 2 /\ AllKindsAbsent(input))
       => /\ Failed
          /\ DOMAIN result.v = {"validation_status", "error", "error_type"}
          /\ ReportedErrors = <<RequiredError(input.tree)>>

\* the file `dublin_core: {}` has been validated and reported FAILED
C13_Witness ==
  /\ ValidateFailed
  /\ AllKindsAbsent(input)
  /\ input.tree.m["dublin_core"] = Map(EmptyMap)

\* the call was made on the file with the given tree, which was not removed
\* while the call ran
Validated_File(tree) ==
  Done /\ input = TextFile(tree) /\ fs = input

\* C14 as stated: the example YAML of the example command validates to a
\* Success report with populated_elements 15, completeness_percentage 100.0
\* and both side records present.
C14_Original ==
  Validated_File(example_yaml)
    => /\ Passed
       /\ result.v.populated_elements = 15
       /\ result.v.completeness_percentage = IntToFloat(100)
       /\ result.v.has_additional_metadata
       /\ result.v.has_metadata_record

\* C14 amended: the example YAML of the example command validates to a
\* Success report with both side records present, but it has no source and
\* no relation element: populated_elements is 13 (24 instances) and
\* completeness_percentage (13 / 15) * 100 = 86.66666666666667.  A document
\* with all 15 kinds and both side records gets populated_elements 15 and
\* completeness_percentage 100.0.
C14_Example ==
  /\ Validated_File(example_yaml)
       => /\ Passed
          /\ result.v.populated_elements = 13
          /\ result.v.total_elements = 24
          /\ {kind \in KindSet : result.v.element_counts[kind] = 0} = {"source", "relation"}
          /\ result.v.completeness_percentage = FloatMul(FloatDiv(13, 15), 100)
          /\ result.v.completeness_percentage # IntToFloat(100)
          /\ result.v.has_additional_metadata
          /\ result.v.has_metadata_record
  /\ Validated_File(CompleteDocument(<<"nowhere", 1>>))
       => /\ Passed
          /\ result.v.populated_elements = 15
          /\ result.v.completeness_percentage = IntToFloat(100)
          /\ result.v.has_additional_metadata
          /\ result.v.has_metadata_record

\* the call on the example file has returned its report
C14_Witness ==
  Validated_File(example_yaml) /\ Passed /\ result.v.file_size_bytes = SomeSize

----------------------------------------------------------------------------
(* Properties of the batch command *)

\* the command has ended
Exited ==
  at = "exited"

\* the directory exists and no file matches the pattern
EmptyFileSet ==
  directory.kind = "dir" /\ directory.files = <<>>

\* the number of results with the given status
CountStatus(status) ==
  Cardinality({i \in DOMAIN results : results[i].validation_status = status})

\* C15: the success_rate of the batch summary equals passed / total * 100,
\* total being the number of results, and a batch over an empty file set
\* produces a summary with zero results and success_rate 0 and ends with
\* exit status 0.
C15_BatchSummary ==
  /\ batch_result # NoBatchResult =>
       /\ batch_result.summary.total_files = Len(results)
       /\ batch_result.summary.passed = CountStatus("PASSED")
       /\ batch_result.summary.success_rate =
            FloatMul(FloatDiv(CountStatus("PASSED"), Len(results)), 100)
  /\ (Exited /\ EmptyFileSet) =>
       /\ results = <<>>
       /\ exit_code = 0
       /\ output_file =>
            /\ batch_result # NoBatchResult
            /\ batch_result.summary.total_files = 0
            /\ batch_result.summary.success_rate = IntToFloat(0)

\* what the call returns for the file f when nothing else touches f while
\* the call runs, d being the outcome of validate_document
AfterValidate(f, d) ==
  IF d.raised THEN validation_decorator(d)
  ELSE validation_decorator(Returns(create_validation_report(d.v), f, stat(f)))

\* the same, l being the outcome of load_yaml_file
AfterLoad(f, l) ==
  IF l.raised THEN validation_decorator(l)
  ELSE AfterValidate(f, validate_document(l.v))

\* the report of the file f alone
ReportOf_File(f) ==
  AfterLoad(f, load_yaml_file(f)).v

\* the loop of the batch command has run and ended
LoopEnded ==
  at \in {"summary", "exit", "exited"} /\ files # <<>>

----------------------------------------------------------------------------
(* Properties of the ORCID rule *)

AsciiDigit ==
  {"0", "1", "2", "3", "4", "5", "6", "7", "8", "9"}

\* the string has the form 0000-000[1-3]-DDDD-DDD[0-9X]
IsOrcidForm(s) ==
  /\ Len(s) = 19
  /\ SubSeq(s, 1, 8) = <<"0","0","0","0","-","0","0","0">>
  /\ s[9] \in {"1", "2", "3"}
  /\ s[10] = "-" /\ s[15] = "-"
  /\ \A i \in (11..14) \cup (16..18) : s[i] \in AsciiDigit
  /\ s[19] \in AsciiDigit \cup {"X"}

\* the call was made on a document with one creator, whose file was not
\* removed while the call ran
CreatorCall ==
  /\ Done
  /\ fs = input
  /\ \E creator \in CreatorOptions : input = TextFile(DocumentWith("creator", creator))

\* the orcid of that creator, Absent if it has none
OrcidGiven ==
  LET creator == input.tree.m["dublin_core"].m["creator"].items[1].m
  IN  IF "orcid" \in DOMAIN creator THEN creator["orcid"] ELSE Absent

\* C17: validate_orcid accepts exactly the strings of the form
\* 0000-000[1-3]-DDDD-DDD[0-9X], a creator with an orcid passes validation
\* iff validate_orcid accepts the orcid, and a creator without orcid passes.
C17_OrcidRule ==
  CreatorCall =>
    IF OrcidGiven \in {Absent, Null} THEN Passed
    ELSE /\ Passed <=> validate_orcid(OrcidGiven.s)
         /\ validate_orcid(OrcidGiven.s) <=> IsOrcidForm(OrcidGiven.s)

----------------------------------------------------------------------------
(* Properties of validate_doi *)

\* the registrant is 10. and at least four digits, the suffix is a slash
\* and at least one character, none of them white space
IsBareDoi(registrant, suffix) ==
  /\ Len(registrant) >= 7
  /\ SubSeq(registrant, 1, 3) = <<"1","0",".">>
  /\ \A i \in 4..Len(registrant) : registrant[i] \in AsciiDigit
  /\ Len(suffix) >= 2
  /\ suffix[1] = "/"
  /\ \A i \in 2..Len(suffix) : suffix[i] \notin {" ", "\t", "\n", "\r"}

\* the registrant is 10. and one to three digits
FewDigits(registrant) ==
  /\ Len(registrant) \in 4..6
  /\ SubSeq(registrant, 1, 3) = <<"1","0",".">>
  /\ \A i \in 4..Len(registrant) : registrant[i] \in AsciiDigit

\* each part before the registrant is absent or the optional part of its
\* place, in any case of letters
OptionalParts(parts) ==
  /\ LowerStr(parts.scheme) \in {<<>>, <<"h","t","t","p","s",":","/","/">>}
  /\ LowerStr(parts.dx) \in {<<>>, <<"d","x",".">>}
  /\ LowerStr(parts.host) \in {<<>>, <<"d","o","i",".","o","r","g","/">>}

\* no part before the registrant
NoPrefix(parts) ==
  /\ parts.scheme = <<>>
  /\ parts.dx = <<>>
  /\ parts.host = <<>>

\* doi.org/, before it dx. or nothing, before that http://, https:// or
\* nothing, in any case of letters
DoiOrgPrefix(parts) ==
  /\ LowerStr(parts.scheme) \in {<<>>, <<"h","t","t","p","s",":","/","/">>, <<"h","t","t","p",":","/","/">>}
  /\ LowerStr(parts.dx) \in {<<>>, <<"d","x",".">>}
  /\ LowerStr(parts.host) = <<"d","o","i",".","o","r","g","/">>

\* validate_doi has returned v for the string with the given parts
DoiReturned(parts, v) ==
  /\ doi_returned.done
  /\ doi_string = Joined(parts)
  /\ doi_returned.value = v

DoiExamples ==
  /\ doi_returned.done /\ doi_string = <<"1","0",".","5","5","5","5","/","e","x","a","m","p","l","e">> => doi_returned.value
  /\ doi_returned.done /\ doi_string = <<"h","t","t","p","s",":","/","/","d","o","i",".","o","r","g","/","1","0",".","5","5","5","5","/","e","x","a","m","p","l","e">>
       => doi_returned.value
  /\ doi_returned.done /\ doi_string = <<"n","o","t","-","a","-","d","o","i">> => ~ doi_returned.value

\* C18 as stated: validate_doi accepts a bare 10.NNNN+/suffix and the same
\* string after any combination of the optional parts https://, dx. and
\* doi.org/, in any case of letters, rejects fewer than four digits after
\* 10., accepts "10.5555/example" and "https://doi.org/10.5555/example" and
\* rejects "not-a-doi".
C18_Original ==
  /\ \A parts \in DoiParts :
       /\ IsBareDoi(parts.registrant, parts.suffix) /\ OptionalParts(parts)
            => ~ DoiReturned(parts, FALSE)
       /\ FewDigits(parts.registrant) => ~ DoiReturned(parts, TRUE)
  /\ DoiExamples

\* C18: validate_doi accepts a bare 10.NNNN+/suffix exactly when nothing
\* precedes it or doi.org/ precedes it, itself after an optional dx. and an
\* optional http:// or https://, in any case of letters; https:// or dx.
\* without doi.org/ is rejected, as are fewer than four digits after 10.;
\* "10.5555/example" and "https://doi.org/10.5555/example" are accepted and
\* "not-a-doi" is rejected.
C18_DoiForm ==
  /\ \A parts \in DoiParts :
       DoiReturned(parts, TRUE) <=>
         /\ doi_returned.done
         /\ doi_string = Joined(parts)
         /\ IsBareDoi(parts.registrant, parts.suffix)
         /\ NoPrefix(parts) \/ DoiOrgPrefix(parts)
  /\ DoiExamples

\* HTTPS://DX.DOI.ORG/10.12345/Example.Dataset-2024 was accepted
C18_Witness ==
  /\ doi_returned.done
  /\ doi_string = <<"H","T","T","P","S",":","/","/","D","X",".","D","O","I",".","O","R","G","/","1","0",".","1","2","3","4","5","/","E","x","a","m","p","l","e",".","D","a","t","a","s","e","t","-","2","0","2","4">>
  /\ doi_returned.value

----------------------------------------------------------------------------
(* Independence of the calls *)

\* the file with another path
Moved(f, path) ==
  [f EXCEPT !.path = path]

\* the report without its file_path
WithoutPath(r) ==
  [k \in DOMAIN r \ {"file_path"} |-> r[k]]

----------------------------------------------------------------------------
(* The shape of the reports *)

PassedKeys ==
  {"validation_status", "total_elements", "populated_elements",
   "completeness_percentage", "element_counts", "has_additional_metadata",
   "has_metadata_record", "file_path", "file_size_bytes"}

FailedKeys ==
  {"validation_status", "error", "error_type"}

\* the exception that ended the call: that of load_yaml_file, that of
\* validate_document or that of path.stat() (the file is as it was then,
\* nothing removes it after the call is done)
RaisedException ==
  IF ParseFailed THEN load_yaml_file(fs).exc
  ELSE IF ValidateFailed THEN validate_document(data).exc
  ELSE stat(fs).exc

\* C20: every report has validation_status PASSED or FAILED; a PASSED report
\* has total_elements, populated_elements, completeness_percentage,
\* element_counts, has_additional_metadata, has_metadata_record, file_path
\* and file_size_bytes and neither error nor error_type; a FAILED report has
\* exactly validation_status, error and error_type, error_type being the
\* name of the class of the raised exception and error its message.
C20_ReportShape ==
  Done /\ ~ result.raised =>
    /\ result.v.validation_status \in {"PASSED", "FAILED"}
    /\ Passed => DOMAIN result.v = PassedKeys
    /\ Failed =>
         /\ DOMAIN result.v = FailedKeys
         /\ result.v.error_type = RaisedException.type
         /\ result.v.error = [msg |-> RaisedException.msg,
                              errors |-> RaisedException.errors]

\* the file was removed after the report was made: the FAILED report has the
\* class and the message of the error of path.stat()
C20_Witness ==
  /\ Failed
  /\ Len(ran) = 3
  /\ result.v.error_type = "FileNotFoundError"
  /\ DOMAIN result.v = FailedKeys

----------------------------------------------------------------------------
(* The required elements in the PASSED reports *)

\* the float is greater than 0 (the floats here have no sign: a bit of the
\* significand is set)
FloatPositive(f) ==
  \E i \in DOMAIN f.m : f.m[i] = 1

\* C21: every PASSED report of validate_dublin_core_yaml counts at least one
\* title and at least one identifier, hence has populated_elements >= 2,
\* total_elements >= 2 and completeness_percentage > 0; no PASSED report has
\* populated_elements 0 or 1.
C21_RequiredCounted ==
  Passed =>
    /\ result.v.element_counts["title"] >= 1
    /\ result.v.element_counts["identifier"] >= 1
    /\ result.v.populated_elements >= 2
    /\ result.v.populated_elements \notin {0, 1}
    /\ result.v.total_elements >= 2
    /\ FloatPositive(result.v.completeness_percentage)

\* a PASSED report of a document with one title, one identifier and nothing
\* else: the least counts a PASSED report can have
C21_Witness ==
  /\ Passed
  /\ result.v.element_counts["title"] = 1
  /\ result.v.element_counts["identifier"] = 1
  /\ result.v.populated_elements = 2
  /\ result.v.total_elements = 2
  /\ result.v.completeness_percentage = FloatMul(FloatDiv(2, 15), 100)

----------------------------------------------------------------------------
(* The end of the batch loop *)

\* one of the first n results is FAILED
FailedAmong(n) ==
  \E i \in 1..n : results[i].validation_status = "FAILED"

\* C22: in batch without --continue-on-error the loop stops at the first file
\* that fails validation: no result is appended after a FAILED one and no
\* call is made after one; with --continue-on-error every matched file is
\* processed.
C22_StopsAtFirstFailure ==
  /\ ~ continue_on_error =>
       /\ ~ FailedAmong(Len(results) - 1)
       /\ at \in {"loop", "call"} => ~ FailedAmong(Len(results))
  /\ continue_on_error /\ LoopEnded => Len(results) = Len(files)
====
